---- MODULE Spec2Model ----
(***************************************************************************)
(* Feed controller of vibescroll: the useTopicFeed hook (third variant in  *)
(* src/src/hooks/useSwipeGestures.ts, lines 846-1321) as a state machine.  *)
(* One action per handler or asynchronous completion.  A handler's         *)
(* setState, the render it causes and the effects that render runs are one *)
(* step: React flushes passive effects before the next event is handled.   *)
(***************************************************************************)
EXTENDS Integers, Sequences, FiniteSets, TLC

VARIABLES
    state,            \* TopicFeedState held by useState
    initializedRef,   \* initializedRef.current
    preloadedRef,     \* preloadedRef.current: ids of the topics whose deep dive was prefetched
    conceptPreloadRef,\* conceptPreloadRef.current: <<topic id, highlight text>> already prefetched
    localStorage,     \* the entry under STORAGE_KEY
    now,              \* Date.now()
    fetchInFlight,    \* number of pending GET /api/topics of fetchTopics
    moreInFlight,     \* pending requests of loadMoreTopics: the state.topics each closure captured
    exploreInFlight,  \* pending POST /api/explore of exploreConcept: captured concept and
                      \* key, and the topicId sent
    preloadInFlight,  \* pending POST /api/explore of preloadTopics: the highlight text
    deepDiveInFlight, \* pending GET /api/expand of preloadTopics: the topic id
    expandInFlight,   \* pending GET /api/expand of expandTopic: the topic id
    prefetched,       \* per topic id, the deep-dive requests preloadTopics issued this session
    explored,         \* the texts whose exploreConcept request succeeded this session
    deepDived,        \* the topic ids whose deep-dive prefetch was answered ok this session
    lastOp,           \* the directional command, "explore" for exploreConcept, "escape"
                      \* for the Escape key ("escape popup" if pressed with the selection
                      \* popup open), or the loadMoreTopics completion that ran last
                      \* ("other" after any other handler or completion)
    reportedMode,     \* data.mode of the last ok response to fetchTopics ("none" before one)
    selectionPopup,   \* selectionPopup of TopicFeed: isOpen and text
    questionState,    \* questionState.isOpen of TopicFeed
    preferenceStorage,\* the entries under the keys of InterestsPanel
    highlightedText   \* a HighlightedText: its props and the segments it rendered

vars == <<state, initializedRef, preloadedRef, conceptPreloadRef, localStorage, now,
          fetchInFlight, moreInFlight, exploreInFlight, preloadInFlight, deepDiveInFlight,
          expandInFlight, prefetched, explored, deepDived, lastOp, reportedMode,
          selectionPopup, questionState, preferenceStorage, highlightedText>>

\* what lies outside the hook: the page's own state, the preference panel's
\* entries and the rendering of a text
pageVars == <<selectionPopup, questionState, preferenceStorage, highlightedText>>

\* what preloadTopics writes
preloadVars == <<preloadedRef, conceptPreloadRef, preloadInFlight, deepDiveInFlight,
                 prefetched>>

----------------------------------------------------------------------------
(* Bounds *)

MaxId == 2              \* topic ids the content service draws from: 1..MaxId
MaxBatch == 1           \* longest batch the content service returns
MaxTopics == 3          \* longest feed explored
MaxFetchInFlight == 1   \* concurrent fetchTopics requests explored
MaxExploreInFlight == 1 \* concurrent exploreConcept requests explored
MaxExpandInFlight == 2  \* concurrent expandTopic requests explored
MaxContent == 3         \* longest content rendered, beside the tests' sentences
MaxText == 2            \* longest highlight text with the sentinel offsets
MaxHighlights == 2      \* most highlights of a content

(* Program constants *)

threshold == 3
TitleKeyLen == 30
preloadCount == 2
oneHour == 60 * 60 * 1000

----------------------------------------------------------------------------
(* Strings are tuples of one-character strings. *)

Min(a, b) == IF a < b THEN a ELSE b

Null == <<>>
Some(x) == <<x>>

\* JavaScript truthiness of a string | null
Truthy(o) == o # Null /\ Len(o[1]) > 0

LowerChar(c) ==
    CASE c = "A" -> "a"
      [] c = "B" -> "b"
      [] c = "Q" -> "q"
      [] OTHER -> c

toLowerCase(s) == [i \in 1..Len(s) |-> LowerChar(s[i])]

\* s.slice(0, n)
slice(s, n) == SubSeq(s, 1, Min(n, Len(s)))

RECURSIVE trimStart(_)
trimStart(s) ==
    IF s # <<>> /\ Head(s) = " " THEN trimStart(Tail(s)) ELSE s

RECURSIVE trimEnd(_)
trimEnd(s) ==
    IF s # <<>> /\ s[Len(s)] = " " THEN trimEnd(SubSeq(s, 1, Len(s) - 1)) ELSE s

trim(s) == trimEnd(trimStart(s))

\* the key without trim()
normalizedConceptUntrimmed(concept) == toLowerCase(concept)

\* concept.toLowerCase().trim()
normalizedConcept(concept) == trim(toLowerCase(concept))

\* t.title.toLowerCase().slice(0, 30)
TitleKey(title) == slice(toLowerCase(title), TitleKeyLen)

----------------------------------------------------------------------------
(* The content service: topics and batches *)

Pad(n) == [i \in 1..n |-> "x"]

\* Topics 1 and 3 are the same headline under two ids (their titles agree on
\* the first 30 characters up to case); every other topic has its own title.
TitleOf(i) ==
    CASE i = 1 -> <<"A">> \o Pad(TitleKeyLen - 1) \o <<"1">>
      [] i = 3 -> <<"a">> \o Pad(TitleKeyLen - 1) \o <<"3">>
      [] OTHER -> <<"B">> \o Pad(i)

\* A topic as the service sends it when it marks no highlight.
TopicOf(i) == [id |-> i, title |-> TitleOf(i), highlights |-> <<>>]

\* Highlight texts of topic i when the service marks highlights: every topic
\* carries one phrase, the same up to case and trailing blank.
HighlightsOf(i) == IF i % 2 = 1 THEN <<<<"Q">>>> ELSE <<<<"q", " ">>>>

HighlightedTopicOf(i) == [TopicOf(i) EXCEPT !.highlights = HighlightsOf(i)]

TopicIds == 1..MaxId

DistinctIdSeqs(n) ==
    {s \in UNION {[1..k -> TopicIds] : k \in 0..n} :
        \A a, b \in DOMAIN s : a # b => s[a] # s[b]}

\* A batch holds at most MaxBatch topics with pairwise different ids.
Batches == {[k \in DOMAIN s |-> TopicOf(s[k])] : s \in DistinctIdSeqs(MaxBatch)}

HighlightedBatches ==
    {[k \in DOMAIN s |-> HighlightedTopicOf(s[k])] : s \in DistinctIdSeqs(MaxBatch)}

Ids(topics) == {topics[k].id : k \in DOMAIN topics}

\* A feed one topic longer than the look-ahead window of its first topic.
LongFeed == [k \in 1..(preloadCount + 2) |-> HighlightedTopicOf(k)]

\* the ids of all the topics above
KnownIds == TopicIds \cup Ids(LongFeed)

\* What GET /api/topics may answer: the batches, and the values of data.mode
\* and data.hasMore ("undefined" when the field is missing).
Service ==
    [batches |-> Batches,
     modes |-> {"live", "demo", "undefined"},
     hasMore |-> {"true", "false", "undefined"}]

\* A service that always sends both fields and runs live.
LiveService ==
    [batches |-> Batches, modes |-> {"live"}, hasMore |-> {"true", "false"}]

\* A live service that marks highlights.
HighlightingService ==
    [batches |-> HighlightedBatches, modes |-> {"live"}, hasMore |-> {"true", "false"}]

----------------------------------------------------------------------------
(* Concept texts and explanations *)

\* Selections reach exploreConcept trimmed and non-empty (useTextSelection);
\* highlight texts come from the content service untrimmed.
Concepts == {<<"Q">>}

\* Two texts with one normalization: they differ in case and a trailing blank.
EquivalentConcepts == {<<"Q">>, <<"q", " ">>}

Content(text, arg) == [text |-> text, arg |-> arg]

\* data.content of /api/explore
Explanations == {Content("explanation", <<>>)}

\* the service wording an explanation in either of two ways
Rewordings == Explanations \cup {Content("explanation", <<"2">>)}

\* `Unable to research "${concept}" at this time. Please try again.`
UnableToResearch(concept) == Content("Unable to research", concept)

----------------------------------------------------------------------------
(* Persistence *)

NoEntry ==
    [present |-> FALSE, parseable |-> FALSE, topics |-> <<>>,
     currentIndex |-> 0, timestamp |-> 0]

\* localStorage.setItem(STORAGE_KEY, JSON.stringify({topics, currentIndex, timestamp}))
saveToStorage(topics, currentIndex, time) ==
    [present |-> TRUE, parseable |-> TRUE, topics |-> topics,
     currentIndex |-> currentIndex, timestamp |-> time]

\* try { localStorage.setItem(...) } catch: the entry after the call; ok says
\* whether setItem returned or threw.
setItem(store, entry, ok) == IF ok THEN entry ELSE store

\* The value returned (saved) and the entry left behind (store).
loadFromStorage(store, time) ==
    IF ~store.present THEN [saved |-> Null, store |-> store]
    ELSE IF ~store.parseable THEN [saved |-> Null, store |-> store]
    ELSE IF time - store.timestamp > oneHour THEN [saved |-> Null, store |-> NoEntry]
    ELSE [saved |-> Some([topics |-> store.topics, currentIndex |-> store.currentIndex]),
          store |-> store]

\* The keys InterestsPanel reads, writes or removes
PreferenceKeys ==
    {"vibescroll_preferences", "vibescroll_likes", "vibescroll_interest_tags",
     "vibescroll_custom_prompt", "vibescroll_shown_urls", "vibescroll_location"}

NoPreferences == [k \in PreferenceKeys |-> Null]

----------------------------------------------------------------------------
(* State *)

\* useState of selectionPopup in TopicFeed
ClosedPopup == [isOpen |-> FALSE, text |-> <<>>]

\* A HighlightedText that has not rendered
NothingRendered == [content |-> <<>>, highlights |-> <<>>, segments |-> Null]

\* A browser that never opened the preference panel, before any response and
\* any rendering
Elsewhere ==
    /\ reportedMode = "none"
    /\ preferenceStorage = NoPreferences
    /\ highlightedText = NothingRendered

InitialState ==
    [topics |-> <<>>,
     currentIndex |-> 0,
     depth |-> "summary",
     isLoading |-> TRUE,
     isLoadingMore |-> FALSE,
     error |-> Null,
     expandedContent |-> <<>>,
     detailContent |-> <<>>,
     direction |-> "down",
     currentConcept |-> Null,
     conceptContent |-> Null,
     isExploringConcept |-> FALSE,
     conceptCache |-> <<>>,
     mode |-> "demo",
     hasMore |-> TRUE]

\* What an earlier session can have left under STORAGE_KEY: nothing, something
\* unparseable, or a checkpoint of a feed and a position in it, written now,
\* exactly an hour ago or longer ago.
StoredFeeds ==
    {[k \in DOMAIN s |-> TopicOf(s[k])] : s \in DistinctIdSeqs(MaxTopics - 1)} \ {<<>>}

InitialStores ==
    {NoEntry, [NoEntry EXCEPT !.present = TRUE]} \cup
    {saveToStorage(b, i, t) :
        b \in StoredFeeds, i \in 0..(MaxTopics - 1), t \in {oneHour + 1, 1, 0}}

\* The same checkpoints of feeds whose topics carry highlights.
HighlightedStores ==
    {[st EXCEPT !.topics = [k \in DOMAIN st.topics |-> HighlightedTopicOf(st.topics[k].id)]] :
        st \in InitialStores}

\* A page that was just loaded: the hook's state and refs after construction.
Loaded ==
    /\ state = InitialState
    /\ initializedRef = FALSE
    /\ preloadedRef = {}
    /\ conceptPreloadRef = {}
    /\ fetchInFlight = 0
    /\ moreInFlight = <<>>
    /\ exploreInFlight = <<>>
    /\ preloadInFlight = {}
    /\ deepDiveInFlight = {}
    /\ expandInFlight = <<>>
    /\ prefetched = [id \in KnownIds |-> 0]
    /\ explored = {}
    /\ deepDived = {}
    /\ lastOp = "other"
    /\ selectionPopup = ClosedPopup
    /\ questionState = FALSE

Init ==
    /\ Loaded
    /\ Elsewhere
    /\ now = oneHour + 1
    /\ localStorage \in {st \in InitialStores : st.currentIndex < Len(st.topics) \/ ~st.parseable}

\* An earlier session left a checkpoint of the long feed, at any position.
InitLongFeed ==
    /\ Loaded
    /\ Elsewhere
    /\ now = oneHour + 1
    /\ localStorage \in {saveToStorage(LongFeed, i, now) : i \in 0..(Len(LongFeed) - 1)}

\* An earlier session left a checkpoint of a feed whose topics carry
\* highlights, written just now.
InitRestored ==
    /\ Loaded
    /\ Elsewhere
    /\ now = oneHour + 1
    /\ localStorage \in {st \in HighlightedStores :
                            /\ st.parseable
                            /\ st.timestamp = now
                            /\ st.currentIndex < Len(st.topics)}

\* A browser with nothing under STORAGE_KEY: every feed it will show comes
\* from a response of this session or of one before a reload.
InitFresh ==
    /\ Loaded
    /\ Elsewhere
    /\ now = oneHour + 1
    /\ localStorage = NoEntry

InitHighlighted ==
    /\ Loaded
    /\ Elsewhere
    /\ now = oneHour + 1
    /\ localStorage \in {st \in HighlightedStores : st.currentIndex < Len(st.topics) \/ ~st.parseable}

----------------------------------------------------------------------------
(* The load-more effect and loadMoreTopics *)

\* useCallback deps of loadMoreTopics: [state.isLoadingMore, state.topics]
loadMoreTopicsChanged(prev, cur, newTopicsRef) ==
    prev.isLoadingMore # cur.isLoadingMore \/ newTopicsRef

\* deps of the effect
LoadMoreEffectDeps(prev, cur, newTopicsRef) ==
    \/ prev.currentIndex # cur.currentIndex
    \/ Len(prev.topics) # Len(cur.topics)
    \/ prev.hasMore # cur.hasMore
    \/ prev.isLoadingMore # cur.isLoadingMore
    \/ loadMoreTopicsChanged(prev, cur, newTopicsRef)

\* the condition without the test of hasMore
LoadMoreEffectCondIgnoresHasMore(s) ==
    /\ Len(s.topics) > 0
    /\ s.currentIndex >= Len(s.topics) - threshold
    /\ ~s.isLoadingMore

LoadMoreEffectCond(s) ==
    /\ Len(s.topics) > 0
    /\ s.currentIndex >= Len(s.topics) - threshold
    /\ s.hasMore
    /\ ~s.isLoadingMore

\* if (state.isLoadingMore) return;
loadMoreTopicsGuard(s) == ~s.isLoadingMore

\* loadMoreTopics without setting the flag
loadMoreTopicsStartNoFlag(prev) == prev

\* setState((prev) => ({ ...prev, isLoadingMore: true }))
loadMoreTopicsStart(prev) == [prev EXCEPT !.isLoadingMore = TRUE]

\* One pass of the effects after a render: prev is the state of the previous
\* render, cur of this one; more are the pending loadMoreTopics requests.
EffectRound(prev, cur, newTopicsRef, more) ==
    IF /\ LoadMoreEffectDeps(prev, cur, newTopicsRef)
       /\ LoadMoreEffectCond(cur)
       /\ loadMoreTopicsGuard(cur)
    THEN [state |-> loadMoreTopicsStart(cur), more |-> Append(more, cur.topics)]
    ELSE [state |-> cur, more |-> more]

\* Renders and effects until the state settles.
RECURSIVE Render(_, _, _, _)
Render(prev, cur, newTopicsRef, more) ==
    LET r == EffectRound(prev, cur, newTopicsRef, more)
    IN IF r.state = cur THEN r ELSE Render(cur, r.state, FALSE, r.more)

\* new topics of a batch, filtered against the topics the closure captured
newTopics(batch, captured) ==
    LET existingIds == Ids(captured)
        existingTitles == {TitleKey(captured[k].title) : k \in DOMAIN captured}
        Keep(t) == t.id \notin existingIds /\ TitleKey(t.title) \notin existingTitles
    IN SelectSeq(batch, Keep)

RemoveAt(s, k) == SubSeq(s, 1, k - 1) \o SubSeq(s, k + 1, Len(s))

----------------------------------------------------------------------------
(* The preload effect and preloadTopics *)

\* preloadedRef.current.add(id) leaving the set as it was
preloadedAddForgets(ref, id) == ref

\* preloadedRef.current.add(id)
preloadedAdd(ref, id) == ref \cup {id}

\* currentTopic.highlights.forEach: ref is conceptPreloadRef.current, requests
\* the explanation requests issued so far
RECURSIVE preloadHighlights(_, _, _, _)
preloadHighlights(topic, k, ref, requests) ==
    IF k > Len(topic.highlights) THEN [ref |-> ref, requests |-> requests]
    ELSE LET cacheKey == <<topic.id, topic.highlights[k]>>
         IN IF cacheKey \notin ref
            THEN preloadHighlights(topic, k + 1, ref \cup {cacheKey}, requests \cup {cacheKey})
            ELSE preloadHighlights(topic, k + 1, ref, requests)

\* for (let i = startIdx; i < endIdx; i++): ref is preloadedRef.current, issued
\* the ids of the deep-dive requests issued so far
RECURSIVE preloadNext(_, _, _, _, _)
preloadNext(topics, i, endIdx, ref, issued) ==
    IF i >= endIdx THEN [ref |-> ref, issued |-> issued]
    ELSE LET topic == topics[i + 1]
         IN IF topic.id \notin ref
            THEN preloadNext(topics, i + 1, endIdx, preloadedAdd(ref, topic.id),
                             Append(issued, topic.id))
            ELSE preloadNext(topics, i + 1, endIdx, ref, issued)

\* preloadTopics looking ahead to the end of the list
preloadTopicsToTheEnd(s, preloaded, conceptPreloaded) ==
    LET first == /\ s.currentIndex < Len(s.topics)
                 /\ s.topics[s.currentIndex + 1].id \notin preloaded
        currentTopic == s.topics[s.currentIndex + 1]
        h == IF first
             THEN preloadHighlights(currentTopic, 1, conceptPreloaded, {})
             ELSE [ref |-> conceptPreloaded, requests |-> {}]
        startIdx == s.currentIndex + 1
        endIdx == Len(s.topics)
        n == IF first
             THEN preloadNext(s.topics, startIdx, endIdx,
                              preloadedAdd(preloaded, currentTopic.id), <<currentTopic.id>>)
             ELSE preloadNext(s.topics, startIdx, endIdx, preloaded, <<>>)
    IN [preloadedRef |-> n.ref, conceptPreloadRef |-> h.ref,
        deepDives |-> n.issued, concepts |-> h.requests]

\* preloadTopics in state s: the refs it leaves and the requests it issues
preloadTopics(s, preloaded, conceptPreloaded) ==
    LET first == /\ s.currentIndex < Len(s.topics)
                 /\ s.topics[s.currentIndex + 1].id \notin preloaded
        currentTopic == s.topics[s.currentIndex + 1]
        h == IF first
             THEN preloadHighlights(currentTopic, 1, conceptPreloaded, {})
             ELSE [ref |-> conceptPreloaded, requests |-> {}]
        startIdx == s.currentIndex + 1
        endIdx == Min(s.currentIndex + preloadCount + 1, Len(s.topics))
        n == IF first
             THEN preloadNext(s.topics, startIdx, endIdx,
                              preloadedAdd(preloaded, currentTopic.id), <<currentTopic.id>>)
             ELSE preloadNext(s.topics, startIdx, endIdx, preloaded, <<>>)
    IN [preloadedRef |-> n.ref, conceptPreloadRef |-> h.ref,
        deepDives |-> n.issued, concepts |-> h.requests]

\* deps of the effect: currentIndex, topics.length and preloadTopics, whose
\* own deps are state.topics and state.currentIndex
PreloadEffectDeps(prev, cur, newTopicsRef) ==
    \/ prev.currentIndex # cur.currentIndex
    \/ Len(prev.topics) # Len(cur.topics)
    \/ newTopicsRef

Count(seq, x) == Cardinality({k \in DOMAIN seq : seq[k] = x})

\* The preload effect after the render that took prev to cur.
Preload(prev, cur, newTopicsRef) ==
    IF PreloadEffectDeps(prev, cur, newTopicsRef) /\ Len(cur.topics) > 0
    THEN LET p == preloadTopics(cur, preloadedRef, conceptPreloadRef)
         IN /\ preloadedRef' = p.preloadedRef
            /\ conceptPreloadRef' = p.conceptPreloadRef
            /\ preloadInFlight' = preloadInFlight \cup p.concepts
            /\ deepDiveInFlight' =
                   deepDiveInFlight \cup {p.deepDives[k] : k \in DOMAIN p.deepDives}
            /\ prefetched' = [id \in DOMAIN prefetched |->
                                 prefetched[id] + Count(p.deepDives, id)]
    ELSE UNCHANGED preloadVars

----------------------------------------------------------------------------
(* The auto-expand effect and expandTopic *)

\* state.expandedContent[topicId] is truthy
Expanded(s, topicId) ==
    topicId \in DOMAIN s.expandedContent /\ s.expandedContent[topicId].text # ""

\* expandTopic requesting whatever is stored
expandTopicAlways(s, topicId, pending) ==
    IF topicId \notin Ids(s.topics) THEN pending
    ELSE Append(pending, topicId)

\* expandTopic(topicId) up to its await, called with the state s of the
\* render: the pending requests it leaves
expandTopic(s, topicId, pending) ==
    IF Expanded(s, topicId) THEN pending
    ELSE IF topicId \notin Ids(s.topics) THEN pending
    ELSE Append(pending, topicId)

\* deps of the effect: depth, currentIndex, topics and expandTopic, whose own
\* deps are state.expandedContent and state.topics; newRef says that the
\* render found a new topics or expandedContent object
ExpandEffectDeps(prev, cur, newRef) ==
    \/ prev.depth # cur.depth
    \/ prev.currentIndex # cur.currentIndex
    \/ newRef

\* The auto-expand effect after the render that took prev to cur.
AutoExpand(prev, cur, newRef) ==
    IF /\ ExpandEffectDeps(prev, cur, newRef)
       /\ cur.currentIndex < Len(cur.topics)
       /\ cur.depth = "expanded"
    THEN LET pending == expandTopic(cur, cur.topics[cur.currentIndex + 1].id, expandInFlight)
         IN /\ Len(pending) <= MaxExpandInFlight
            /\ expandInFlight' = pending
    ELSE UNCHANGED expandInFlight

----------------------------------------------------------------------------
(* fetchTopics *)

FetchFailed == Some(<<"Failed to fetch topics">>)

\* setState of the restore branch
Restore(prev, saved) ==
    [prev EXCEPT !.topics = saved.topics,
                 !.currentIndex = saved.currentIndex,
                 !.isLoading = FALSE,
                 !.mode = "live"]

\* FetchStart reporting a storage error
FetchStartReports(prev) ==
    [prev EXCEPT !.isLoading = TRUE, !.error = Some(<<"Failed to load state">>)]

\* setState((prev) => ({ ...prev, isLoading: true, error: null }))
FetchStart(prev) == [prev EXCEPT !.isLoading = TRUE, !.error = Null]

\* FetchSuccess without currentIndex: 0
FetchSuccessKeepsIndex(prev, topics, mode, hasMore) ==
    [prev EXCEPT !.topics = topics,
                 !.mode = IF mode = "undefined" THEN "demo" ELSE mode,
                 !.hasMore = (hasMore # "false"),
                 !.isLoading = FALSE]

\* setState of the success branch; data.mode and data.hasMore may be missing
FetchSuccess(prev, topics, mode, hasMore) ==
    [prev EXCEPT !.topics = topics,
                 !.currentIndex = 0,
                 !.mode = IF mode = "undefined" THEN "demo" ELSE mode,
                 !.hasMore = (hasMore # "false"),
                 !.isLoading = FALSE]

\* setState of the catch branch
FetchFailure(prev) == [prev EXCEPT !.isLoading = FALSE, !.error = FetchFailed]

\* fetchTopics(forceRefresh) up to its await
fetchTopics(forceRefresh) ==
    LET l == loadFromStorage(localStorage, now)
        tryRestore == ~forceRefresh /\ ~initializedRef
        restored == tryRestore /\ l.saved # Null /\ Len(l.saved[1].topics) > 0
    IN /\ initializedRef' = TRUE
       /\ localStorage' = IF tryRestore THEN l.store ELSE localStorage
       /\ IF restored
          THEN LET cur == Restore(state, l.saved[1])
                   r == Render(state, cur, TRUE, moreInFlight)
               IN /\ state' = r.state
                  /\ moreInFlight' = r.more
                  /\ fetchInFlight' = fetchInFlight
                  /\ Preload(state, cur, TRUE)
                  /\ AutoExpand(state, cur, TRUE)
          ELSE LET cur == FetchStart(state)
                   r == Render(state, cur, FALSE, moreInFlight)
               IN /\ state' = r.state
                  /\ moreInFlight' = r.more
                  /\ fetchInFlight' = fetchInFlight + 1
                  /\ Preload(state, cur, FALSE)
                  /\ AutoExpand(state, cur, FALSE)
       /\ UNCHANGED <<now, exploreInFlight, explored, deepDived>>

\* the initial-load effect
Mount ==
    /\ ~initializedRef
    /\ fetchTopics(FALSE)
    /\ lastOp' = "other"
    /\ UNCHANGED <<reportedMode, pageVars>>

\* refetch, exposed by the hook
Refetch ==
    /\ initializedRef
    /\ fetchInFlight < MaxFetchInFlight
    /\ \E forceRefresh \in BOOLEAN : fetchTopics(forceRefresh)
    /\ lastOp' = "other"
    /\ UNCHANGED <<reportedMode, pageVars>>

\* fetchTopics after its await, the response being ok: data.topics is batch,
\* and stored says whether localStorage.setItem returns
fetchTopicsOk(batch, mode, hasMore, stored) ==
    /\ fetchInFlight > 0
    /\ LET cur == FetchSuccess(state, batch, mode, hasMore)
           r == Render(state, cur, TRUE, moreInFlight)
       IN /\ state' = r.state
          /\ moreInFlight' = r.more
          /\ localStorage' = setItem(localStorage, saveToStorage(batch, 0, now), stored)
          /\ Preload(state, cur, TRUE)
          /\ AutoExpand(state, cur, TRUE)
    /\ fetchInFlight' = fetchInFlight - 1
    /\ UNCHANGED <<initializedRef, now, exploreInFlight, explored, deepDived>>

\* service: what the service may answer; writes: whether setItem may throw
FetchTopicsOk(service, writes) ==
    /\ \E batch \in service.batches, mode \in service.modes,
          hasMore \in service.hasMore, stored \in writes :
        /\ fetchTopicsOk(batch, mode, hasMore, stored)
        /\ reportedMode' = mode
    /\ lastOp' = "other"
    /\ UNCHANGED pageVars

FetchTopicsFail ==
    /\ fetchInFlight > 0
    /\ LET cur == FetchFailure(state)
           r == Render(state, cur, FALSE, moreInFlight)
       IN /\ state' = r.state
          /\ moreInFlight' = r.more
          /\ Preload(state, cur, FALSE)
    /\ fetchInFlight' = fetchInFlight - 1
    /\ lastOp' = "other"
    /\ UNCHANGED <<reportedMode, pageVars>>
    /\ UNCHANGED <<initializedRef, now, localStorage, exploreInFlight, expandInFlight,
                   explored, deepDived>>

----------------------------------------------------------------------------
(* loadMoreTopics: completions *)

\* LoadMoreSuccess putting the new topics first
LoadMoreSuccessPrepends(prev, new) ==
    [prev EXCEPT !.topics = new \o prev.topics,
                 !.hasMore = TRUE,
                 !.isLoadingMore = FALSE]

\* setState of the success branch
LoadMoreSuccess(prev, new) ==
    [prev EXCEPT !.topics = prev.topics \o new,
                 !.hasMore = TRUE,
                 !.isLoadingMore = FALSE]

\* LoadMoreFailure leaving the flag set
LoadMoreFailureKeepsFlag(prev) == prev

\* setState of the catch branch
LoadMoreFailure(prev) == [prev EXCEPT !.isLoadingMore = FALSE]

\* loadMoreTopics after its await, request k answered with batch
loadMoreOk(k, batch, stored) ==
    LET new == newTopics(batch, moreInFlight[k])
        cur == LoadMoreSuccess(state, new)
        r == Render(state, cur, TRUE, RemoveAt(moreInFlight, k))
    IN /\ Len(cur.topics) <= MaxTopics
       /\ state' = r.state
       /\ moreInFlight' = r.more
       /\ localStorage' =
              setItem(localStorage, saveToStorage(cur.topics, state.currentIndex, now), stored)
       /\ Preload(state, cur, TRUE)
       /\ AutoExpand(state, cur, TRUE)
       /\ UNCHANGED <<initializedRef, now, fetchInFlight, exploreInFlight, explored, deepDived>>

LoadMoreOk(service, writes) ==
    /\ \E k \in DOMAIN moreInFlight, batch \in service.batches, stored \in writes :
        loadMoreOk(k, batch, stored)
    /\ lastOp' = "moreOk"
    /\ UNCHANGED <<reportedMode, pageVars>>

LoadMoreFail ==
    /\ \E k \in DOMAIN moreInFlight :
        LET cur == LoadMoreFailure(state)
            r == Render(state, cur, FALSE, RemoveAt(moreInFlight, k))
        IN /\ state' = r.state
           /\ moreInFlight' = r.more
           /\ Preload(state, cur, FALSE)
    /\ lastOp' = "moreFail"
    /\ UNCHANGED <<reportedMode, pageVars>>
    /\ UNCHANGED <<initializedRef, now, localStorage, fetchInFlight, exploreInFlight,
                   expandInFlight, explored, deepDived>>

----------------------------------------------------------------------------
(***************************************************************************)
(* Concept exploration.  These handlers change none of the load-more       *)
(* effect's dependencies, so the render after them runs no effect.         *)
(***************************************************************************)

\* setState of clearConceptExploration
clearConceptExploration(prev) ==
    [prev EXCEPT !.currentConcept = Null,
                 !.conceptContent = Null,
                 !.isExploringConcept = FALSE]

\* exploreConcept never finding its entry
CachedNever(s, key) == FALSE

\* state.conceptCache[key] is truthy
Cached(s, key) == key \in DOMAIN s.conceptCache /\ s.conceptCache[key].text # ""

\* ExploreHit showing the normalized text
ExploreHitShowsKey(prev, concept, key) ==
    [prev EXCEPT !.currentConcept = Some(key),
                 !.conceptContent = Some(prev.conceptCache[key]),
                 !.isExploringConcept = FALSE]

\* setState of the cache-hit branch
ExploreHit(prev, concept, key) ==
    [prev EXCEPT !.currentConcept = Some(concept),
                 !.conceptContent = Some(prev.conceptCache[key]),
                 !.isExploringConcept = FALSE]

\* setState before the request
ExploreStart(prev, concept) ==
    [prev EXCEPT !.currentConcept = Some(concept),
                 !.conceptContent = Null,
                 !.isExploringConcept = TRUE]

\* setState of the success branch
ExploreSuccess(prev, key, content) ==
    [prev EXCEPT !.conceptContent = Some(content),
                 !.isExploringConcept = FALSE,
                 !.conceptCache = (key :> content) @@ prev.conceptCache]

\* ExploreFailure reporting the failure as a failed topic load is reported
ExploreFailureReports(prev, concept) ==
    [prev EXCEPT !.conceptContent = Some(UnableToResearch(concept)),
                 !.isExploringConcept = FALSE,
                 !.error = Some(<<"Failed to explore concept">>)]

\* ExploreFailure leaving the overlay loading
ExploreFailureKeepsLoading(prev, concept) ==
    [prev EXCEPT !.conceptContent = Some(UnableToResearch(concept))]

\* setState of the catch branch
ExploreFailure(prev, concept) ==
    [prev EXCEPT !.conceptContent = Some(UnableToResearch(concept)),
                 !.isExploringConcept = FALSE]

\* exploreConcept(concept) up to its await
exploreConcept(concept) ==
    LET key == normalizedConcept(concept)
        currentTopic == IF state.currentIndex < Len(state.topics)
                        THEN Some(state.topics[state.currentIndex + 1].id)
                        ELSE Null
    IN /\ IF Cached(state, key)
          THEN /\ state' = ExploreHit(state, concept, key)
               /\ exploreInFlight' = exploreInFlight
          ELSE /\ Len(exploreInFlight) < MaxExploreInFlight
               /\ state' = ExploreStart(state, concept)
               /\ exploreInFlight' =
                      Append(exploreInFlight,
                             [concept |-> concept, key |-> key, topicId |-> currentTopic])
       /\ UNCHANGED <<initializedRef, now, localStorage, fetchInFlight, moreInFlight,
                      expandInFlight, explored, deepDived, preloadVars>>

\* concepts: the texts the user selects or clicks
ExploreConcept(concepts) ==
    /\ initializedRef
    /\ \E concept \in concepts : exploreConcept(concept)
    /\ lastOp' = "explore"
    /\ UNCHANGED <<reportedMode, pageVars>>

\* exploreConcept after its await, request k answered with content
exploreConceptOk(k, content) ==
    /\ state' = ExploreSuccess(state, exploreInFlight[k].key, content)
    /\ exploreInFlight' = RemoveAt(exploreInFlight, k)
    /\ explored' = explored \cup {exploreInFlight[k].concept}
    /\ UNCHANGED <<initializedRef, now, localStorage, fetchInFlight, moreInFlight,
                   expandInFlight, deepDived, preloadVars>>

\* explanations: what POST /api/explore may answer
ExploreOk(explanations) ==
    /\ \E k \in DOMAIN exploreInFlight, content \in explanations :
        exploreConceptOk(k, content)
    /\ lastOp' = "other"
    /\ UNCHANGED <<reportedMode, pageVars>>

\* exploreConcept after its await, request k failed or answered not ok
exploreConceptFail(k) ==
    /\ state' = ExploreFailure(state, exploreInFlight[k].concept)
    /\ exploreInFlight' = RemoveAt(exploreInFlight, k)
    /\ UNCHANGED <<initializedRef, now, localStorage, fetchInFlight, moreInFlight,
                   expandInFlight, explored, deepDived, preloadVars>>

ExploreFail ==
    /\ \E k \in DOMAIN exploreInFlight : exploreConceptFail(k)
    /\ lastOp' = "other"
    /\ UNCHANGED <<reportedMode, pageVars>>

ClearConceptExploration ==
    /\ initializedRef
    /\ state' = clearConceptExploration(state)
    /\ lastOp' = "other"
    /\ UNCHANGED <<reportedMode, pageVars>>
    /\ UNCHANGED <<initializedRef, now, localStorage, fetchInFlight, moreInFlight,
                   exploreInFlight, expandInFlight, explored, deepDived, preloadVars>>

\* setState of a prefetched explanation: the key is h.text.toLowerCase()
PreloadSuccess(prev, text, content) ==
    [prev EXCEPT !.conceptCache = (toLowerCase(text) :> content) @@ prev.conceptCache]

\* the explanation request preloadTopics issued for a highlight is answered
\* with content
preloadConceptOk(request, content) ==
    /\ request \in preloadInFlight
    /\ state' = PreloadSuccess(state, request[2], content)
    /\ preloadInFlight' = preloadInFlight \ {request}
    /\ UNCHANGED <<initializedRef, preloadedRef, conceptPreloadRef, prefetched, now,
                   localStorage, fetchInFlight, moreInFlight, exploreInFlight,
                   deepDiveInFlight, expandInFlight, explored, deepDived>>

PreloadConceptOk(explanations) ==
    /\ \E request \in preloadInFlight, content \in explanations :
        preloadConceptOk(request, content)
    /\ lastOp' = "other"
    /\ UNCHANGED <<reportedMode, pageVars>>

\* a failed prefetch reporting an error
PreloadFailureReports(prev) == [prev EXCEPT !.error = Some(<<"Failed to prefetch">>)]

\* .catch(() => {}): no setState
PreloadFailure(prev) == prev

\* the explanation request preloadTopics issued for a highlight fails
PreloadConceptFail ==
    /\ \E request \in preloadInFlight : preloadInFlight' = preloadInFlight \ {request}
    /\ state' = PreloadFailure(state)
    /\ lastOp' = "other"
    /\ UNCHANGED <<reportedMode, pageVars>>
    /\ UNCHANGED <<initializedRef, preloadedRef, conceptPreloadRef, prefetched, now,
                   localStorage, fetchInFlight, moreInFlight, exploreInFlight,
                   deepDiveInFlight, expandInFlight, explored, deepDived>>

\* data.content of /api/expand
DeepDives == {Content("deep dive", <<>>)}

\* ExpandSuccess replacing the map by the one entry
ExpandSuccessReplaces(prev, topicId, content) ==
    [prev EXCEPT !.expandedContent = (topicId :> content)]

\* setState of expandTopic
ExpandSuccess(prev, topicId, content) ==
    [prev EXCEPT !.expandedContent = (topicId :> content) @@ prev.expandedContent]

\* expandTopic after its await, request k answered ok with content
expandTopicOk(k, content) ==
    LET cur == ExpandSuccess(state, expandInFlight[k], content)
        pending == RemoveAt(expandInFlight, k)
    IN /\ state' = cur
       /\ IF /\ ExpandEffectDeps(state, cur, TRUE)
             /\ cur.currentIndex < Len(cur.topics)
             /\ cur.depth = "expanded"
          THEN expandInFlight' =
                   expandTopic(cur, cur.topics[cur.currentIndex + 1].id, pending)
          ELSE expandInFlight' = pending
       /\ UNCHANGED <<initializedRef, now, localStorage, fetchInFlight, moreInFlight,
                      exploreInFlight, explored, deepDived, preloadVars>>

\* contents: what GET /api/expand may answer
ExpandOk(contents) ==
    /\ \E k \in DOMAIN expandInFlight, content \in contents : expandTopicOk(k, content)
    /\ lastOp' = "other"
    /\ UNCHANGED <<reportedMode, pageVars>>

\* expandTopic after its await, request k failed or answered not ok: the
\* catch branch logs
expandTopicFail(k) ==
    /\ expandInFlight' = RemoveAt(expandInFlight, k)
    /\ UNCHANGED <<state, initializedRef, now, localStorage, fetchInFlight, moreInFlight,
                   exploreInFlight, explored, deepDived, preloadVars>>

ExpandFail ==
    /\ \E k \in DOMAIN expandInFlight : expandTopicFail(k)
    /\ lastOp' = "other"
    /\ UNCHANGED <<reportedMode, pageVars>>

\* the deep-dive request preloadTopics issued for topic id is answered ok
\* (ok = TRUE) or fails: fetch(...).catch(() => {}) drops either outcome
deepDiveDone(id, ok) ==
    /\ id \in deepDiveInFlight
    /\ deepDiveInFlight' = deepDiveInFlight \ {id}
    /\ deepDived' = IF ok THEN deepDived \cup {id} ELSE deepDived
    /\ state' = IF ok THEN state ELSE PreloadFailure(state)
    /\ UNCHANGED <<initializedRef, preloadedRef, conceptPreloadRef, prefetched, now,
                   localStorage, fetchInFlight, moreInFlight, exploreInFlight,
                   preloadInFlight, expandInFlight, explored>>

DeepDiveOk ==
    /\ \E id \in deepDiveInFlight : deepDiveDone(id, TRUE)
    /\ lastOp' = "other"
    /\ UNCHANGED <<reportedMode, pageVars>>

DeepDiveFail ==
    /\ \E id \in deepDiveInFlight : deepDiveDone(id, FALSE)
    /\ lastOp' = "other"
    /\ UNCHANGED <<reportedMode, pageVars>>

\* setState((prev) => ({ ...prev, depth: "summary" }))
resetDepth(prev) == [prev EXCEPT !.depth = "summary"]

ResetDepth ==
    /\ initializedRef
    /\ state' = resetDepth(state)
    /\ lastOp' = "other"
    /\ UNCHANGED <<reportedMode, pageVars>>
    /\ UNCHANGED <<initializedRef, now, localStorage, fetchInFlight, moreInFlight,
                   exploreInFlight, expandInFlight, explored, deepDived, preloadVars>>

----------------------------------------------------------------------------
(* navigate *)

Directions == {"up", "down", "left", "right"}

\* the commands of the vertical keys and swipes: the previous and the next topic
Vertical == {"up", "down"}

\* the commands of the horizontal keys and swipes: the depth of the topic
Horizontal == {"left", "right"}

\* moving between topics, and leaving an overlay
VerticalOrLeft == {"up", "down", "left"}

\* moving forward: the next topic, and deeper into the topic
Forward == {"down", "right"}

\* navigateDown with the index wrapping to the first topic at the end
navigateDownWraps(prev) ==
    LET last == prev.currentIndex >= Len(prev.topics) - 1
    IN IF Len(prev.topics) > 1
       THEN [prev EXCEPT !.currentIndex = IF last THEN 0 ELSE prev.currentIndex + 1,
                         !.depth = "summary",
                         !.direction = "down",
                         !.currentConcept = Null,
                         !.conceptContent = Null]
       ELSE prev

\* case "down"
navigateDown(prev) ==
    IF prev.currentIndex < Len(prev.topics) - 1
    THEN [prev EXCEPT !.currentIndex = prev.currentIndex + 1,
                      !.depth = "summary",
                      !.direction = "down",
                      !.currentConcept = Null,
                      !.conceptContent = Null]
    ELSE prev

\* navigateUp without the reset of depth and overlay
navigateUpKeepsView(prev) ==
    IF prev.currentIndex > 0
    THEN [prev EXCEPT !.currentIndex = prev.currentIndex - 1,
                      !.direction = "up"]
    ELSE prev

\* case "up"
navigateUp(prev) ==
    IF prev.currentIndex > 0
    THEN [prev EXCEPT !.currentIndex = prev.currentIndex - 1,
                      !.depth = "summary",
                      !.direction = "up",
                      !.currentConcept = Null,
                      !.conceptContent = Null]
    ELSE prev

\* navigateRight cycling from detail back to summary
navigateRightCycles(prev) ==
    IF prev.depth = "summary" THEN [prev EXCEPT !.depth = "expanded"]
    ELSE IF prev.depth = "expanded" THEN [prev EXCEPT !.depth = "detail"]
    ELSE [prev EXCEPT !.depth = "summary"]

\* case "right"
navigateRight(prev) ==
    IF prev.depth = "summary" THEN [prev EXCEPT !.depth = "expanded"]
    ELSE IF prev.depth = "expanded" THEN [prev EXCEPT !.depth = "detail"]
    ELSE prev

\* navigateLeft collapsing straight to summary
navigateLeftCollapses(prev) ==
    IF prev.depth = "detail" THEN [prev EXCEPT !.depth = "summary"]
    ELSE IF prev.depth = "expanded" THEN [prev EXCEPT !.depth = "summary"]
    ELSE prev

\* case "left"
navigateLeft(prev) ==
    IF prev.depth = "detail" THEN [prev EXCEPT !.depth = "expanded"]
    ELSE IF prev.depth = "expanded" THEN [prev EXCEPT !.depth = "summary"]
    ELSE prev

\* the updater passed to setState
navigateUpdate(prev, direction) ==
    CASE direction = "down" -> navigateDown(prev)
      [] direction = "up" -> navigateUp(prev)
      [] direction = "right" -> navigateRight(prev)
      [] direction = "left" -> navigateLeft(prev)
      [] OTHER -> prev

\* navigateSave writing the index the user left
navigateSaveStale(prev, direction, store, time) ==
    LET next == navigateUpdate(prev, direction)
    IN IF direction \in {"down", "up"} /\ next.currentIndex # prev.currentIndex
       THEN saveToStorage(prev.topics, prev.currentIndex, time)
       ELSE store

\* the saveToStorage calls inside the updater: one per change of currentIndex
navigateSave(prev, direction, store, time) ==
    LET next == navigateUpdate(prev, direction)
    IN IF direction \in {"down", "up"} /\ next.currentIndex # prev.currentIndex
       THEN saveToStorage(prev.topics, next.currentIndex, time)
       ELSE store

\* navigate without the overlay test
closesConceptNever(s, direction) == FALSE

\* if (state.currentConcept && direction === "left")
closesConcept(s, direction) == Truthy(s.currentConcept) /\ direction = "left"

\* navigate(direction), with the render and effects that follow; stored says
\* whether localStorage.setItem returns
navigate(direction, stored) ==
    /\ IF closesConcept(state, direction)
       THEN /\ state' = clearConceptExploration(state)
            /\ UNCHANGED <<localStorage, moreInFlight, expandInFlight, preloadVars>>
       ELSE LET cur == navigateUpdate(state, direction)
                r == Render(state, cur, FALSE, moreInFlight)
            IN /\ state' = r.state
               /\ moreInFlight' = r.more
               /\ localStorage' =
                      setItem(localStorage,
                              navigateSave(state, direction, localStorage, now), stored)
               /\ Preload(state, cur, FALSE)
               /\ AutoExpand(state, cur, FALSE)
    /\ UNCHANGED <<initializedRef, now, fetchInFlight, exploreInFlight, explored, deepDived>>

\* directions: the commands the user gives
Navigate(directions, writes) ==
    /\ initializedRef
    /\ \E direction \in directions, stored \in writes :
        /\ navigate(direction, stored)
        /\ lastOp' = direction
        /\ UNCHANGED <<reportedMode, pageVars>>

----------------------------------------------------------------------------
(* The page: TopicFeed's key and gesture handlers *)

\* what the hook holds beside state
hookFrame == <<initializedRef, now, localStorage, fetchInFlight, moreInFlight,
               exploreInFlight, expandInFlight, explored, deepDived, preloadVars>>

\* useTextSelection: nothing selected, or a selected text
Selections == {Null} \cup {Some(c) : c \in Concepts}

\* onEscape closing the concept overlay before the question overlay
onEscapeConceptFirst ==
    IF selectionPopup.isOpen
    THEN /\ selectionPopup' = ClosedPopup
         /\ UNCHANGED <<questionState, state>>
    ELSE IF Truthy(state.currentConcept)
    THEN /\ state' = clearConceptExploration(state)
         /\ UNCHANGED <<selectionPopup, questionState>>
    ELSE IF questionState
    THEN /\ questionState' = FALSE
         /\ UNCHANGED <<selectionPopup, state>>
    ELSE /\ state' = resetDepth(state)
         /\ UNCHANGED <<selectionPopup, questionState>>

\* onEscape of useKeyboardNavigation
onEscape ==
    IF selectionPopup.isOpen
    THEN /\ selectionPopup' = ClosedPopup
         /\ UNCHANGED <<questionState, state>>
    ELSE IF questionState
    THEN /\ questionState' = FALSE
         /\ UNCHANGED <<selectionPopup, state>>
    ELSE IF Truthy(state.currentConcept)
    THEN /\ state' = clearConceptExploration(state)
         /\ UNCHANGED <<selectionPopup, questionState>>
    ELSE /\ state' = resetDepth(state)
         /\ UNCHANGED <<selectionPopup, questionState>>

\* the Escape key
Escape ==
    /\ initializedRef
    /\ onEscape
    /\ lastOp' = IF selectionPopup.isOpen THEN "escape popup" ELSE "escape"
    /\ UNCHANGED <<hookFrame, reportedMode, preferenceStorage, highlightedText>>

\* handleEnter, selection being what useTextSelection holds
handleEnter(selection) ==
    IF selection # Null
    THEN /\ selectionPopup' = [isOpen |-> TRUE, text |-> selection[1]]
         /\ lastOp' = "other"
         /\ UNCHANGED <<state, hookFrame>>
    ELSE IF selectionPopup.isOpen
    THEN /\ exploreConcept(selectionPopup.text)
         /\ selectionPopup' = ClosedPopup
         /\ lastOp' = "explore"
    ELSE /\ navigate("right", TRUE)
         /\ lastOp' = "right"
         /\ UNCHANGED selectionPopup

\* the Enter key
HandleEnter(selections) ==
    /\ initializedRef
    /\ \E selection \in selections : handleEnter(selection)
    /\ UNCHANGED <<questionState, reportedMode, preferenceStorage, highlightedText>>

\* onLongPress of useSwipeGestures
onLongPress(selection) ==
    IF selection # Null
    THEN /\ exploreConcept(selection[1])
         /\ lastOp' = "explore"
         /\ UNCHANGED questionState
    ELSE /\ questionState' = TRUE
         /\ lastOp' = "other"
         /\ UNCHANGED <<state, hookFrame>>

\* a long press
LongPress(selections) ==
    /\ initializedRef
    /\ \E selection \in selections : onLongPress(selection)
    /\ UNCHANGED <<selectionPopup, reportedMode, preferenceStorage, highlightedText>>

----------------------------------------------------------------------------
(* The preference panel: InterestsPanel's handlers over its entries *)

\* the tags, prompts and places the user may choose
Tags == {"Tech"}
Prompts == {"Hello", ""}
Locations == {"NYC", "Location detected"}

\* What an earlier session left under a key
EarlierValue(k) ==
    CASE k = "vibescroll_interest_tags" -> <<"Tech">>
      [] k = "vibescroll_custom_prompt" -> "Hello"
      [] k = "vibescroll_location" -> "NYC"
      [] OTHER -> "stored"

InitialPreferences ==
    {[k \in PreferenceKeys |-> IF k \in P THEN Some(EarlierValue(k)) ELSE Null] :
        P \in SUBSET PreferenceKeys}

\* localStorage.removeItem(key) for each key of keys
removeItems(store, keys) == [k \in DOMAIN store |-> IF k \in keys THEN Null ELSE store[k]]

\* the reset removing the location as well
ResetKeysWithLocation == PreferenceKeys

\* the keys "Reset all preferences" removes
ResetKeys ==
    {"vibescroll_preferences", "vibescroll_likes", "vibescroll_interest_tags",
     "vibescroll_custom_prompt", "vibescroll_shown_urls"}

\* what is neither the panel's entries nor lastOp
besidePreferences == <<state, hookFrame, reportedMode, selectionPopup, questionState,
                       highlightedText>>

\* toggleTag(tag): selectedTags is what the panel read from the entry
toggleTag(tag) ==
    LET saved == preferenceStorage["vibescroll_interest_tags"]
        selectedTags == IF saved = Null THEN <<>> ELSE saved[1]
        newSet == IF \E i \in DOMAIN selectedTags : selectedTags[i] = tag
                  THEN SelectSeq(selectedTags, LAMBDA t : t # tag)
                  ELSE Append(selectedTags, tag)
    IN preferenceStorage' =
           [preferenceStorage EXCEPT !["vibescroll_interest_tags"] = Some(newSet)]

ToggleTag(tags) ==
    /\ \E tag \in tags : toggleTag(tag)
    /\ lastOp' = "other"
    /\ UNCHANGED besidePreferences

\* savePrompt with customPrompt as typed
SavePrompt(prompts) ==
    /\ \E customPrompt \in prompts :
          preferenceStorage' =
              [preferenceStorage EXCEPT !["vibescroll_custom_prompt"] = Some(customPrompt)]
    /\ lastOp' = "other"
    /\ UNCHANGED besidePreferences

\* requestLocation whose position callback ran: the place found, or
\* "Location detected" if the lookup failed
RequestLocation(locations) ==
    /\ \E locationStr \in locations :
          preferenceStorage' =
              [preferenceStorage EXCEPT !["vibescroll_location"] = Some(locationStr)]
    /\ lastOp' = "other"
    /\ UNCHANGED besidePreferences

\* the Clear button next to the location
ClearLocation ==
    /\ preferenceStorage["vibescroll_location"] # Null
    /\ preferenceStorage' = removeItems(preferenceStorage, {"vibescroll_location"})
    /\ lastOp' = "other"
    /\ UNCHANGED besidePreferences

\* onClick of "Reset all preferences"; confirmed is what confirm() returns
resetAllPreferences(confirmed) ==
    /\ preferenceStorage' =
           IF confirmed THEN removeItems(preferenceStorage, ResetKeys) ELSE preferenceStorage
    /\ lastOp' = IF confirmed THEN "reset" ELSE "other"

\* answers: what the user may answer to confirm()
ResetAllPreferences(answers) ==
    /\ \E confirmed \in answers : resetAllPreferences(confirmed)
    /\ UNCHANGED besidePreferences

\* An earlier session left a feed checkpoint and any of the panel's entries.
InitPreferences ==
    /\ Loaded
    /\ reportedMode = "none"
    /\ highlightedText = NothingRendered
    /\ preferenceStorage \in InitialPreferences
    /\ now = oneHour + 1
    /\ localStorage \in {saveToStorage(b, i, now) : b \in StoredFeeds, i \in {0}}

----------------------------------------------------------------------------
(* HighlightedText: the segments of a content with highlights *)

\* String.prototype.slice(start, end) for start, end >= 0
sliceRange(str, start, end) ==
    LET from == Min(start, Len(str))
        to == Min(end, Len(str))
    IN IF from >= to THEN <<>> ELSE SubSeq(str, from + 1, to)

\* text occurs in content at the (0-based) position p
OccursAt(content, text, p) ==
    /\ p + Len(text) <= Len(content)
    /\ SubSeq(content, p + 1, p + Len(text)) = text

RECURSIVE indexOfFrom(_, _, _)
indexOfFrom(content, text, p) ==
    IF p + Len(text) > Len(content) THEN -1
    ELSE IF OccursAt(content, text, p) THEN p
    ELSE indexOfFrom(content, text, p + 1)

RECURSIVE indexOfBackFrom(_, _, _)
indexOfBackFrom(content, text, p) ==
    IF p < 0 THEN -1
    ELSE IF OccursAt(content, text, p) THEN p
    ELSE indexOfBackFrom(content, text, p - 1)

\* indexOf finding the last occurrence
indexOfLast(content, text) == indexOfBackFrom(content, text, Len(content) - Len(text))

\* String.prototype.indexOf
indexOf(content, text) == indexOfFrom(content, text, 0)

\* sorted with h put behind the elements whose startIndex is not larger
InsertByStartIndex(sorted, h) ==
    LET n == Cardinality({i \in DOMAIN sorted : sorted[i].startIndex <= h.startIndex})
    IN SubSeq(sorted, 1, n) \o <<h>> \o SubSeq(sorted, n + 1, Len(sorted))

\* [...highlights].sort((a, b) => a.startIndex - b.startIndex): the sort is stable
RECURSIVE sortedHighlights(_)
sortedHighlights(highlights) ==
    IF highlights = <<>> THEN <<>>
    ELSE InsertByStartIndex(sortedHighlights(SubSeq(highlights, 1, Len(highlights) - 1)),
                            highlights[Len(highlights)])

Plain(text) == [text |-> text, isHighlight |-> FALSE, highlight |-> Null]

Marked(text, highlight) == [text |-> text, isHighlight |-> TRUE, highlight |-> Some(highlight)]

\* the (0, 0) offsets the content service sends
IsSentinel(highlight) == highlight.startIndex = 0 /\ highlight.endIndex = 0

\* the loop over sortedHighlights from its k-th element, and the tail
RECURSIVE segmentsFrom(_, _, _, _, _)
segmentsFrom(content, sorted, k, lastIndex, result) ==
    IF k > Len(sorted)
    THEN IF lastIndex < Len(content)
         THEN Append(result, Plain(sliceRange(content, lastIndex, Len(content))))
         ELSE result
    ELSE LET highlight == sorted[k]
             foundIdx == indexOf(content, highlight.text)
         IN IF IsSentinel(highlight) /\ foundIdx < 0
            THEN segmentsFrom(content, sorted, k + 1, lastIndex, result)
            ELSE LET startIdx == IF IsSentinel(highlight) THEN foundIdx
                                 ELSE highlight.startIndex
                     endIdx == IF IsSentinel(highlight)
                               THEN foundIdx + Len(highlight.text)
                               ELSE highlight.endIndex
                     before == IF startIdx > lastIndex
                               THEN Append(result,
                                           Plain(sliceRange(content, lastIndex, startIdx)))
                               ELSE result
                 IN segmentsFrom(content, sorted, k + 1, endIdx,
                                 Append(before,
                                        Marked(sliceRange(content, startIdx, endIdx),
                                               highlight)))

\* useMemo of segments
segments(content, highlights) ==
    IF Len(highlights) = 0 THEN <<Plain(content)>>
    ELSE segmentsFrom(content, sortedHighlights(highlights), 1, 0, <<>>)

\* The contents and highlight lists rendered: every short text over two
\* letters, and the two sentences of the tests.
Alphabet == {"a", "b"}

TextsUpTo(n) == UNION {[1..m -> Alphabet] : m \in 0..n}

Sentence ==
    <<"S", "c", "i", "e", "n", "t", "i", "s", "t", "s", " ", "d", "i", "s",
      "c", "o", "v", "e", "r", "e", "d", " ", "a", " ", "n", "e", "w", " ",
      "q", "u", "a", "n", "t", "u", "m", " ", "e", "r", "r", "o", "r", " ",
      "c", "o", "r", "r", "e", "c", "t", "i", "o", "n", " ", "m", "e", "t",
      "h", "o", "d", ".">>

ShortSentence ==
    <<"S", "c", "i", "e", "n", "t", "i", "s", "t", "s", " ", "d", "i", "s",
      "c", "o", "v", "e", "r", "e", "d", " ", "a", " ", "n", "e", "w", " ",
      "m", "e", "t", "h", "o", "d", ".">>

QuantumErrorCorrection == SubSeq(Sentence, 29, 52)

QuantumComputing ==
    <<"q", "u", "a", "n", "t", "u", "m", " ", "c", "o", "m", "p", "u", "t",
      "i", "n", "g">>

\* A highlight as the content service sends it
Sentinel(id, text) == [id |-> id, text |-> text, startIndex |-> 0, endIndex |-> 0]

\* The highlights a content may carry: any short text with the sentinel
\* offsets, or a part of the content with its offsets
HighlightsFor(content) ==
    {[text |-> t, startIndex |-> 0, endIndex |-> 0] : t \in TextsUpTo(MaxText) \ {<<>>}} \cup
    {[text |-> sliceRange(content, x[1], x[2]), startIndex |-> x[1], endIndex |-> x[2]] :
        x \in {y \in (0..Len(content)) \X (1..Len(content)) : y[1] < y[2]}}

\* the lists of at most MaxHighlights of them, the k-th with id k
HighlightListsFor(content) ==
    UNION {{[k \in 1..n |-> [id |-> k, text |-> f[k].text, startIndex |-> f[k].startIndex,
                              endIndex |-> f[k].endIndex]] :
               f \in [1..n -> HighlightsFor(content)]} : n \in 0..MaxHighlights}

RenderProps ==
    UNION {{[content |-> c, highlights |-> hs, segments |-> Null] :
               hs \in HighlightListsFor(c)} : c \in TextsUpTo(MaxContent)} \cup
    {[content |-> Sentence, highlights |-> <<Sentinel(1, QuantumErrorCorrection)>>,
      segments |-> Null],
     [content |-> ShortSentence, highlights |-> <<Sentinel(1, QuantumComputing)>>,
      segments |-> Null]}

\* A HighlightedText about to render, on a page that was just loaded
InitHighlightedText ==
    /\ Loaded
    /\ reportedMode = "none"
    /\ preferenceStorage = NoPreferences
    /\ now = oneHour + 1
    /\ localStorage = NoEntry
    /\ highlightedText \in RenderProps

\* the component renders: useMemo computes the segments
RenderHighlightedText ==
    /\ highlightedText.segments = Null
    /\ highlightedText' =
           [highlightedText EXCEPT
               !.segments = Some(segments(highlightedText.content,
                                          highlightedText.highlights))]
    /\ lastOp' = "other"
    /\ UNCHANGED <<state, hookFrame, reportedMode, selectionPopup, questionState,
                   preferenceStorage>>

----------------------------------------------------------------------------
(* Reloading the page *)

\* window.location.reload(): a new page with a new hook over the same storage
Reload ==
    /\ initializedRef
    /\ state' = InitialState
    /\ initializedRef' = FALSE
    /\ preloadedRef' = {}
    /\ conceptPreloadRef' = {}
    /\ fetchInFlight' = 0
    /\ moreInFlight' = <<>>
    /\ exploreInFlight' = <<>>
    /\ preloadInFlight' = {}
    /\ deepDiveInFlight' = {}
    /\ expandInFlight' = <<>>
    /\ prefetched' = [id \in KnownIds |-> 0]
    /\ explored' = {}
    /\ deepDived' = {}
    /\ lastOp' = "other"
    /\ selectionPopup' = ClosedPopup
    /\ questionState' = FALSE
    /\ UNCHANGED <<localStorage, now, reportedMode, preferenceStorage, highlightedText>>

----------------------------------------------------------------------------
(* Specification *)

\* The feed as the page drives it (the page never calls refetch), with a
\* working store, a service that marks no highlights, one concept text and
\* the expansions of the topics the user opens.
Next ==
    \/ Mount
    \/ FetchTopicsOk(Service, {TRUE})
    \/ FetchTopicsFail
    \/ LoadMoreOk(Service, {TRUE})
    \/ LoadMoreFail
    \/ Navigate(Directions, {TRUE})
    \/ ExploreConcept(Concepts)
    \/ ExploreOk(Explanations)
    \/ ExploreFail
    \/ ClearConceptExploration
    \/ ResetDepth
    \/ ExpandOk(DeepDives)
    \/ ExpandFail

Spec == Init /\ [][Next]_vars

\* The feed of a live service that marks highlights, with the prefetched
\* explanations arriving and two concept texts of one normalization; the user
\* stays at summary depth and does not refetch.
NextConcept ==
    \/ Mount
    \/ FetchTopicsOk(HighlightingService, {TRUE})
    \/ FetchTopicsFail
    \/ LoadMoreOk(HighlightingService, {TRUE})
    \/ LoadMoreFail
    \/ Navigate(VerticalOrLeft, {TRUE})
    \/ ExploreConcept(EquivalentConcepts)
    \/ ExploreOk(Explanations)
    \/ ExploreFail
    \/ ClearConceptExploration
    \/ PreloadConceptOk(Explanations)
    \/ PreloadConceptFail

SpecConcept == InitHighlighted /\ [][NextConcept]_vars

\* The feed over a store whose writes may throw, with refetches and page
\* reloads; the user moves between topics only.
NextStore ==
    \/ Mount
    \/ Refetch
    \/ FetchTopicsOk(LiveService, BOOLEAN)
    \/ FetchTopicsFail
    \/ LoadMoreOk(LiveService, BOOLEAN)
    \/ LoadMoreFail
    \/ Navigate(Vertical, BOOLEAN)
    \/ Reload

SpecStore == Init /\ [][NextStore]_vars

\* The feed of a service that marks highlights, with the prefetched
\* explanations arriving, refetches and page reloads; the user moves between
\* topics only.
NextPrefetch ==
    \/ Mount
    \/ Refetch
    \/ FetchTopicsOk(HighlightingService, {TRUE})
    \/ FetchTopicsFail
    \/ LoadMoreOk(HighlightingService, {TRUE})
    \/ LoadMoreFail
    \/ Navigate(Vertical, {TRUE})
    \/ PreloadConceptOk(Explanations)
    \/ PreloadConceptFail
    \/ Reload

SpecPrefetch == InitHighlighted /\ [][NextPrefetch]_vars

\* A long feed restored from its checkpoint while the topic service is down:
\* the user moves between topics and reloads the page, and the prefetched
\* explanations arrive.
NextWindow ==
    \/ Mount
    \/ LoadMoreFail
    \/ Navigate(Vertical, {TRUE})
    \/ PreloadConceptOk(Explanations)
    \/ PreloadConceptFail
    \/ Reload

SpecWindow == InitLongFeed /\ [][NextWindow]_vars

\* A feed restored from its checkpoint while the topic service is down: the
\* user moves and changes depth, and the deep dives, prefetched or requested
\* on expansion, are answered in any order.
NextExpand ==
    \/ Mount
    \/ LoadMoreFail
    \/ Navigate(Directions, {TRUE})
    \/ ExpandOk(DeepDives)
    \/ ExpandFail
    \/ DeepDiveOk
    \/ DeepDiveFail

SpecExpand == InitRestored /\ [][NextExpand]_vars

\* The restored feed with the answers that write state arriving in any order
\* while the user moves, changes depth and explores a concept: explanations
\* prefetched and explored, in either wording, and expansions; the prefetched
\* deep dives fail.
NextAnswers ==
    \/ Mount
    \/ Navigate(Directions, {TRUE})
    \/ ExploreConcept(Concepts)
    \/ ExploreOk(Rewordings)
    \/ ExploreFail
    \/ PreloadConceptOk(Explanations)
    \/ PreloadConceptFail
    \/ ExpandOk(DeepDives)
    \/ ExpandFail
    \/ DeepDiveFail

SpecAnswers == InitRestored /\ [][NextAnswers]_vars

----------------------------------------------------------------------------
(* Properties *)

Deeper(depth) ==
    CASE depth = "summary" -> "expanded"
      [] depth = "expanded" -> "detail"
      [] depth = "detail" -> "detail"

Shallower(depth) ==
    CASE depth = "detail" -> "expanded"
      [] depth = "expanded" -> "summary"
      [] depth = "summary" -> "summary"

IsPrefix(s, t) == Len(s) <= Len(t) /\ SubSeq(t, 1, Len(s)) = s

C3_NoOpAtTheEnds ==
    [][/\ (lastOp' = "down" /\ state.currentIndex >= Len(state.topics) - 1) =>
               UNCHANGED <<state, localStorage>>
       /\ (lastOp' = "up" /\ state.currentIndex = 0) =>
               UNCHANGED <<state, localStorage>>
       /\ lastOp' = "down" =>
               /\ state'.currentIndex \in {state.currentIndex, state.currentIndex + 1}
               /\ state'.currentIndex < Len(state.topics) \/ UNCHANGED state
       /\ lastOp' = "up" =>
               /\ state'.currentIndex \in {state.currentIndex, state.currentIndex - 1}
               /\ state'.currentIndex >= 0
      ]_vars

\* The direction flag still says "up" after a `down` at the last index: that
\* `down` moved nothing.
C3_Witness ==
    /\ lastOp = "down"
    /\ state.direction = "up"
    /\ Len(state.topics) > 0
    /\ state.currentIndex = Len(state.topics) - 1

\* C4: an `up` or `down` that changes currentIndex leaves depth = summary,
\* currentConcept = null and conceptContent = null, and the direction flag is
\* the direction of the move.
C4_MoveResets ==
    [][(lastOp' \in {"up", "down"} /\ state'.currentIndex # state.currentIndex) =>
        /\ state'.depth = "summary"
        /\ state'.currentConcept = Null
        /\ state'.conceptContent = Null
        /\ state'.direction = lastOp'
      ]_vars

\* A `down` moved on while an explanation was being loaded in the overlay.
C4_Witness ==
    /\ lastOp = "down"
    /\ state.currentIndex > 0
    /\ state.isExploringConcept
    /\ state.currentConcept = Null
    /\ state.depth = "summary"

\* C5: with a concept overlay open, `left` closes it and leaves depth and
\* currentIndex as they were; a `left` changes depth only with no overlay open.
C5_LeftClosesOverlay ==
    [][lastOp' = "left" =>
        /\ Truthy(state.currentConcept) =>
               /\ state'.currentConcept = Null
               /\ state'.conceptContent = Null
               /\ state'.depth = state.depth
               /\ state'.currentIndex = state.currentIndex
        /\ state'.depth # state.depth => ~Truthy(state.currentConcept)
      ]_vars

\* After a `left` the depth is still detail: the `left` closed an overlay.
C5_Witness ==
    /\ lastOp = "left"
    /\ state.depth = "detail"
    /\ state.currentConcept = Null

\* C6: currentIndex is an index of topics, or 0 when topics is empty.
C6_IndexInRange ==
    IF Len(state.topics) = 0
    THEN state.currentIndex = 0
    ELSE state.currentIndex \in 0..(Len(state.topics) - 1)

\* The user stands on the last topic of a feed of several, and the
\* checkpoint records that position.
C6_Witness ==
    /\ state.currentIndex > 0
    /\ state.currentIndex = Len(state.topics) - 1
    /\ localStorage.present
    /\ localStorage.currentIndex = state.currentIndex

\* C7: no two entries of topics have the same id.
C7_NoDuplicateIds ==
    \A a, b \in DOMAIN state.topics :
        a # b => state.topics[a].id # state.topics[b].id

\* C8: a paginated load that completes leaves the list it found as a prefix of
\* the new list and currentIndex as it was; one that fails leaves topics and
\* currentIndex as they were.
C8_LoadOnlyAppends ==
    [][/\ lastOp' = "moreOk" =>
               /\ IsPrefix(state.topics, state'.topics)
               /\ state'.currentIndex = state.currentIndex
       /\ lastOp' = "moreFail" =>
               /\ state'.topics = state.topics
               /\ state'.currentIndex = state.currentIndex
      ]_vars

C8_Witness ==
    /\ lastOp = "moreOk"
    /\ Len(state.topics) > 1
    /\ state.currentIndex > 0

\* C9: at most one loadMoreTopics request is pending, and while isLoadingMore
\* is set nothing but the completion of the pending request changes the
\* pending requests.
C9_OneLoadInFlight ==
    /\ [](Len(moreInFlight) <= 1)
    /\ [][(state.isLoadingMore /\ lastOp' \notin {"moreOk", "moreFail"}) =>
              moreInFlight' = moreInFlight]_vars

\* A command arrived while a load was pending.
C9_Witness ==
    /\ state.isLoadingMore
    /\ Len(moreInFlight) = 1
    /\ lastOp = "down"
    /\ state.currentIndex > 0

\* C10: isLoadingMore is set only while a loadMoreTopics request is pending.
C10_FlagClearedOnCompletion ==
    state.isLoadingMore => moreInFlight # <<>>

\* A load failed, no other is pending and the flag is clear.
C10_Witness ==
    /\ lastOp = "moreFail"
    /\ ~state.isLoadingMore
    /\ moreInFlight = <<>>

SameText(x, y) == trim(toLowerCase(x)) = trim(toLowerCase(y))

\* C12, as stated: for any text x, two consecutive exploreConcept(x) calls
\* issue at most one request.  currentConcept is written by exploreConcept
\* only, so while it is x the latest call was exploreConcept(x); that call
\* either issued a request or found the entry the next call finds too, so
\* the next exploreConcept(x) must issue none.
C12_SecondCallFromCache ==
    [][\A x \in EquivalentConcepts :
          (state.currentConcept = Some(x) /\ exploreConcept(x)) =>
              exploreInFlight' = exploreInFlight
      ]_vars

\* C12, amended: for any text x, when a request of exploreConcept(x) has
\* completed successfully before the second of two consecutive
\* exploreConcept(x) calls, the second call issues no request and shows the
\* cached entry.
C12_SecondCallAfterSuccess ==
    [][\A x \in EquivalentConcepts :
          (state.currentConcept = Some(x) /\ x \in explored /\ exploreConcept(x)) =>
              /\ exploreInFlight' = exploreInFlight
              /\ state'.conceptContent = Some(state.conceptCache[trim(toLowerCase(x))])
      ]_vars

\* The latest step was an exploreConcept call for "q ", the only text whose
\* request ever succeeded, and it left nothing pending.
C12_Witness ==
    /\ lastOp = "explore"
    /\ state.currentConcept = Some(<<"q", " ">>)
    /\ explored = {<<"q", " ">>}
    /\ ~state.isExploringConcept
    /\ exploreInFlight = <<>>

\* C13: a successful exploreConcept(x) writes its explanation under trim +
\* lowercase of x, and for any y equal to x after trimming and lower-casing,
\* once an exploreConcept(x) request has completed successfully,
\* exploreConcept(y) issues no request and shows the entry under that key.
C13_NormalizedKey ==
    /\ [][\A k \in DOMAIN exploreInFlight, content \in Explanations :
              exploreConceptOk(k, content) =>
                  LET key == trim(toLowerCase(exploreInFlight[k].concept))
                  IN /\ key \in DOMAIN state'.conceptCache
                     /\ state'.conceptCache[key] = content
         ]_vars
    /\ [][\A x \in explored, y \in EquivalentConcepts :
              (SameText(x, y) /\ exploreConcept(y)) =>
                  /\ exploreInFlight' = exploreInFlight
                  /\ state'.conceptContent = Some(state.conceptCache[trim(toLowerCase(x))])
                  /\ ~state'.isExploringConcept
         ]_vars

\* The overlay shows "q " from the cache, and the only text ever requested
\* successfully is "Q".
C13_Witness ==
    /\ lastOp = "explore"
    /\ state.currentConcept = Some(<<"q", " ">>)
    /\ explored = {<<"Q">>}
    /\ state.conceptContent # Null
    /\ exploreInFlight = <<>>

\* C14: when the normalized text is a key of conceptCache, exploreConcept(text)
\* in one step sets currentConcept to text as given, conceptContent to the
\* cached value and the loading flag to false, changes nothing else of the
\* state, and issues no request of any kind, whatever the current topic and
\* whoever wrote the entry (an exploreConcept call or a highlight prefetch).
C14_CacheHit ==
    [][\A text \in EquivalentConcepts :
          (trim(toLowerCase(text)) \in DOMAIN state.conceptCache /\ exploreConcept(text)) =>
              /\ state' = [state EXCEPT
                               !.currentConcept = Some(text),
                               !.conceptContent =
                                   Some(state.conceptCache[trim(toLowerCase(text))]),
                               !.isExploringConcept = FALSE]
              /\ UNCHANGED <<exploreInFlight, preloadInFlight, fetchInFlight, moreInFlight,
                             prefetched>>
      ]_vars

\* The overlay shows "Q" from an entry a highlight prefetch wrote, on the
\* second topic; no exploreConcept request was ever answered.
C14_Witness ==
    /\ lastOp = "explore"
    /\ state.currentConcept = Some(<<"Q">>)
    /\ state.conceptContent # Null
    /\ explored = {}
    /\ exploreInFlight = <<>>
    /\ state.currentIndex > 0

\* C15: when the request of exploreConcept(text) fails, conceptContent becomes
\* the fallback message for text and the loading flag false; conceptCache,
\* error and the rest of the state stay as they were, and the step issues no
\* request: the failed one is gone and nothing else is pending that was not.
C15_FailureShowsFallback ==
    [][\A k \in DOMAIN exploreInFlight :
          exploreConceptFail(k) =>
              /\ state' = [state EXCEPT
                               !.conceptContent =
                                   Some(UnableToResearch(exploreInFlight[k].concept)),
                               !.isExploringConcept = FALSE]
              /\ state'.conceptCache = state.conceptCache
              /\ state'.error = state.error
              /\ Len(exploreInFlight') = Len(exploreInFlight) - 1
              /\ UNCHANGED <<preloadInFlight, fetchInFlight, moreInFlight, prefetched>>
      ]_vars

\* The overlay shows the fallback message for "Q"; nothing is cached, pending
\* or reported.
C15_Witness ==
    /\ state.currentConcept = Some(<<"Q">>)
    /\ state.conceptContent = Some(UnableToResearch(<<"Q">>))
    /\ ~state.isExploringConcept
    /\ state.conceptCache = <<>>
    /\ state.error = Null
    /\ exploreInFlight = <<>>

\* C16: clearConceptExploration(), `left` with the overlay open, and an `up`
\* or `down` that changes currentIndex each leave currentConcept = null,
\* conceptContent = null and the loading flag false.
C16_DismissalClears ==
    [][(\/ ClearConceptExploration
        \/ lastOp' = "left" /\ Truthy(state.currentConcept)
        \/ lastOp' \in {"up", "down"} /\ state'.currentIndex # state.currentIndex) =>
          /\ state'.currentConcept = Null
          /\ state'.conceptContent = Null
          /\ ~state'.isExploringConcept
      ]_vars

Age == now - localStorage.timestamp

\* C17: at initialisation a persisted entry is used if and only if its age is
\* strictly less than one hour: then topics and currentIndex come from it and
\* no topic fetch is issued; otherwise it is removed and a fetch is issued.
C17_FreshEntryUsed ==
    [][(~initializedRef /\ initializedRef' /\ localStorage.present /\ localStorage.parseable) =>
          IF Age < oneHour
          THEN /\ state'.topics = localStorage.topics
               /\ state'.currentIndex = localStorage.currentIndex
               /\ fetchInFlight' = fetchInFlight
          ELSE /\ localStorage' = NoEntry
               /\ fetchInFlight' = fetchInFlight + 1
      ]_vars

Checkpoint(s) == saveToStorage(s.topics, s.currentIndex, now)

\* C18: after every `up` or `down` that changes currentIndex, and after every
\* successful topic fetch and paginated load, the entry under the key holds
\* the controller's topics and currentIndex if the write succeeded; and an
\* initialisation that finds an entry less than an hour old with topics in it
\* resumes with exactly its topics and position.
C18_CheckpointFollowsFeed ==
    /\ [][\A direction \in {"up", "down"} :
              (navigate(direction, TRUE) /\ state'.currentIndex # state.currentIndex) =>
                  localStorage' = Checkpoint(state')
         ]_vars
    /\ [][\A batch \in Batches, mode \in Service.modes, hasMore \in Service.hasMore :
              fetchTopicsOk(batch, mode, hasMore, TRUE) => localStorage' = Checkpoint(state')
         ]_vars
    /\ [][\A k \in DOMAIN moreInFlight, batch \in Batches :
              loadMoreOk(k, batch, TRUE) => localStorage' = Checkpoint(state')
         ]_vars
    /\ [][(/\ ~initializedRef /\ initializedRef'
           /\ localStorage.present /\ localStorage.parseable
           /\ Age < oneHour /\ Len(localStorage.topics) > 0) =>
              /\ state'.topics = localStorage.topics
              /\ state'.currentIndex = localStorage.currentIndex
              /\ fetchInFlight' = fetchInFlight
         ]_vars

\* The user moved down and the entry holds the feed and the new position.
C18_Witness ==
    /\ lastOp = "down"
    /\ state.currentIndex > 0
    /\ state.direction = "down"
    /\ localStorage = Checkpoint(state)

\* C19: an entry that cannot be read or parsed at initialisation leads to the
\* fetch an absent entry leads to, with error null; a checkpoint write that
\* throws leaves the move, fetch or load with the feed state a write that
\* succeeds leaves, and error as it was.
C19_PersistenceFailuresContained ==
    /\ [][(~initializedRef /\ initializedRef' /\ localStorage.present /\ ~localStorage.parseable) =>
              /\ state' = FetchStart(state)
              /\ state'.error = Null
              /\ state'.topics = <<>>
              /\ fetchInFlight' = fetchInFlight + 1
         ]_vars
    /\ [][\A direction \in {"up", "down"} :
              navigate(direction, FALSE) =>
                  /\ state' = Render(state, navigateUpdate(state, direction), FALSE,
                                     moreInFlight).state
                  /\ state'.error = state.error
         ]_vars
    /\ [][\A batch \in Batches, mode \in Service.modes, hasMore \in Service.hasMore :
              fetchTopicsOk(batch, mode, hasMore, FALSE) =>
                  /\ state' = Render(state, FetchSuccess(state, batch, mode, hasMore), TRUE,
                                     moreInFlight).state
                  /\ state'.error = state.error
         ]_vars
    /\ [][\A k \in DOMAIN moreInFlight, batch \in Batches :
              loadMoreOk(k, batch, FALSE) =>
                  /\ state' = Render(state,
                                     LoadMoreSuccess(state, newTopics(batch, moreInFlight[k])),
                                     TRUE, RemoveAt(moreInFlight, k)).state
                  /\ state'.error = state.error
         ]_vars

\* The user moved down and the checkpoint still holds the earlier position:
\* the write threw, and no error is reported.
C19_Witness ==
    /\ lastOp = "down"
    /\ state.currentIndex > 0
    /\ localStorage.present /\ localStorage.parseable
    /\ localStorage.topics = state.topics
    /\ localStorage.currentIndex # state.currentIndex
    /\ state.error = Null

\* C20: preloadTopics issues at most one deep-dive request per topic id in a
\* session.
C20_OnePrefetchPerTopic ==
    \A id \in DOMAIN prefetched : prefetched[id] <= 1

\* The user went down and came back up to the first topic of a feed whose
\* topics were all prefetched once.
C20_Witness ==
    /\ lastOp = "up"
    /\ state.direction = "up"
    /\ state.currentIndex = 0
    /\ Len(state.topics) > 1
    /\ \A k \in DOMAIN state.topics : prefetched[state.topics[k].id] = 1

\* the topics at the indices i..Min(i + preloadCount, L - 1) of the feed
Window(s) ==
    {s.topics[k + 1].id :
        k \in s.currentIndex..Min(s.currentIndex + preloadCount, Len(s.topics) - 1)}

\* C21: whenever the feed is non-empty, a deep-dive request has been issued
\* in this session for every topic at an index in [i, min(i + N, L - 1)], and
\* every step issues deep-dive requests only for topics at those indices of
\* the list it leaves: none beyond i + N, none outside the list, and none
\* but the current topic's when i is the last index.
C21_PrefetchWindow ==
    /\ [](Len(state.topics) > 0 => \A id \in Window(state) : prefetched[id] >= 1)
    /\ [][\A id \in DOMAIN prefetched :
              prefetched'[id] > prefetched[id] =>
                  /\ id \in Window(state')
                  /\ id \in Ids(state'.topics)
                  /\ state'.currentIndex = Len(state'.topics) - 1 =>
                         id = state'.topics[state'.currentIndex + 1].id
         ]_vars

\* The page restored the long feed at its first topic: the first topic and
\* the preloadCount topics after it were requested, the last topic was not.
C21_Witness ==
    /\ state.topics = LongFeed
    /\ state.currentIndex = 0
    /\ \A k \in 1..(preloadCount + 1) : prefetched[LongFeed[k].id] = 1
    /\ prefetched[LongFeed[Len(LongFeed)].id] = 0

\* the highlight texts of the current topic
CurrentHighlights(s) ==
    IF s.currentIndex < Len(s.topics)
    THEN LET topic == s.topics[s.currentIndex + 1]
         IN {topic.highlights[k] : k \in DOMAIN topic.highlights}
    ELSE {}

\* C22: after every step that changes currentIndex or loads the list into an
\* empty feed, every highlight of the now-current topic has its normalized
\* text as a key of conceptCache or an explanation request for that
\* normalized text pending, whether or not the topic's deep dive was
\* requested before.
C22_HighlightsPrefetchedOnArrival ==
    [][(\/ state'.currentIndex # state.currentIndex
        \/ Len(state.topics) = 0 /\ Len(state'.topics) > 0) =>
          \A text \in CurrentHighlights(state') :
              \/ trim(toLowerCase(text)) \in DOMAIN state'.conceptCache
              \/ \E request \in preloadInFlight' : SameText(request[2], text)
      ]_vars

\* C23: no step issues a concept prefetch request for a highlight whose
\* normalized text is a key of conceptCache.
C23_NoPrefetchOfCachedConcept ==
    [][\A request \in preloadInFlight' \ preloadInFlight :
          trim(toLowerCase(request[2])) \notin DOMAIN state.conceptCache
      ]_vars

\* C24: every key of conceptCache is lower-cased and trimmed.
C24_CacheKeysNormalized ==
    \A key \in DOMAIN state.conceptCache : key = trim(toLowerCase(key))

CurrentId(s) == s.topics[s.currentIndex + 1].id

\* the step makes depth expanded on a current topic
EntersExpanded ==
    /\ state'.depth = "expanded"
    /\ state.depth # "expanded"
    /\ state'.currentIndex < Len(state'.topics)

C26_PrefetchedDeepDiveShown ==
    /\ [][\A id \in deepDiveInFlight :
              deepDiveDone(id, TRUE) => id \in DOMAIN state'.expandedContent
         ]_vars
    /\ [][(EntersExpanded /\ CurrentId(state') \in deepDived) =>
              /\ CurrentId(state') \in DOMAIN state'.expandedContent
              /\ expandInFlight' = expandInFlight
         ]_vars

\* C27: a step that makes depth expanded on a current topic t issues one
\* expansion request for t if expandedContent has no entry for t and none if
\* it has one; an expansion answered ok leaves its content under t's id.
C27_ExpandOnDemand ==
    /\ [][EntersExpanded =>
              IF CurrentId(state') \in DOMAIN state.expandedContent
              THEN expandInFlight' = expandInFlight
              ELSE expandInFlight' = Append(expandInFlight, CurrentId(state'))
         ]_vars
    /\ [][\A k \in DOMAIN expandInFlight, content \in DeepDives :
              expandTopicOk(k, content) =>
                  /\ expandInFlight[k] \in DOMAIN state'.expandedContent
                  /\ state'.expandedContent[expandInFlight[k]] = content
         ]_vars

\* The user came back from detail to expanded on a topic whose expansion is
\* stored: nothing is requested.
C27_Witness ==
    /\ lastOp = "left"
    /\ state.depth = "expanded"
    /\ state.currentIndex < Len(state.topics)
    /\ CurrentId(state) \in DOMAIN state.expandedContent
    /\ expandInFlight = <<>>

\* new is old with the entry under k written
MergedAt(old, new, k) ==
    /\ DOMAIN new = DOMAIN old \cup {k}
    /\ \A j \in DOMAIN old \ {k} : new[j] = old[j]

\* C28: whatever the order of the completions, a completion that writes key
\* k into conceptCache or expandedContent leaves the map of the latest state
\* with every other key as it was and k holding what this completion brought;
\* the other map is untouched.
C28_CompletionsMerge ==
    /\ [][\A k \in DOMAIN exploreInFlight, content \in Rewordings :
              exploreConceptOk(k, content) =>
                  /\ MergedAt(state.conceptCache, state'.conceptCache, exploreInFlight[k].key)
                  /\ state'.conceptCache[exploreInFlight[k].key] = content
                  /\ state'.expandedContent = state.expandedContent
         ]_vars
    /\ [][\A request \in preloadInFlight, content \in Rewordings :
              preloadConceptOk(request, content) =>
                  /\ \E key \in DOMAIN state'.conceptCache :
                         /\ MergedAt(state.conceptCache, state'.conceptCache, key)
                         /\ state'.conceptCache[key] = content
                  /\ state'.expandedContent = state.expandedContent
         ]_vars
    /\ [][\A k \in DOMAIN expandInFlight, content \in DeepDives :
              expandTopicOk(k, content) =>
                  /\ MergedAt(state.expandedContent, state'.expandedContent,
                              expandInFlight[k])
                  /\ state'.expandedContent[expandInFlight[k]] = content
                  /\ state'.conceptCache = state.conceptCache
         ]_vars

\* Both maps hold two entries, and the explanation under "q" is the second
\* wording.
C28_Witness ==
    /\ Cardinality(DOMAIN state.conceptCache) = 2
    /\ Cardinality(DOMAIN state.expandedContent) = 2
    /\ state.conceptCache[<<"q">>] \notin Explanations

\* the user is on a topic other than the one of id topicId (null if the
\* request was sent with no topic)
OnAnotherTopic(topicId) ==
    /\ state.currentIndex < Len(state.topics)
    /\ topicId # Some(CurrentId(state))

ViewUnchanged ==
    /\ state'.currentIndex = state.currentIndex
    /\ state'.depth = state.depth
    /\ state'.topics = state.topics
    /\ state'.currentConcept = state.currentConcept
    /\ state'.conceptContent = state.conceptContent

\* C29: the answer, or the failure, of an explanation or expansion request
\* that was issued on a topic the user has left changes none of currentIndex,
\* depth, topics, currentConcept and conceptContent.
C29_StaleAnswersKeyedOnly ==
    /\ [][\A k \in DOMAIN exploreInFlight, content \in Rewordings :
              (exploreConceptOk(k, content) /\ OnAnotherTopic(exploreInFlight[k].topicId)) =>
                  ViewUnchanged
         ]_vars
    /\ [][\A k \in DOMAIN exploreInFlight :
              (exploreConceptFail(k) /\ OnAnotherTopic(exploreInFlight[k].topicId)) =>
                  ViewUnchanged
         ]_vars
    /\ [][\A k \in DOMAIN expandInFlight, content \in DeepDives :
              (expandTopicOk(k, content) /\ OnAnotherTopic(Some(expandInFlight[k]))) =>
                  ViewUnchanged
         ]_vars

\* C30: a topic fetch that fails, the initial one or a paginated one, leaves
\* error non-null.
C30_FetchFailureReported ==
    [][(FetchTopicsFail \/ lastOp' = "moreFail") => state'.error # Null]_vars

\* The feed from an empty store, with a service that may run live or on
\* fallback content, a working store and reloads of the page.
NextMode ==
    \/ Mount
    \/ FetchTopicsOk(Service, {TRUE})
    \/ FetchTopicsFail
    \/ LoadMoreOk(Service, {TRUE})
    \/ LoadMoreFail
    \/ Navigate(Vertical, {TRUE})
    \/ Reload

SpecMode == InitFresh /\ [][NextMode]_vars

\* The feed of a service that marks highlights, with every request other
\* than the topic load failing, and a store whose writes may throw.
NextErrors ==
    \/ Mount
    \/ FetchTopicsOk(HighlightingService, BOOLEAN)
    \/ FetchTopicsFail
    \/ LoadMoreFail
    \/ Navigate(Forward, BOOLEAN)
    \/ ExploreConcept(Concepts)
    \/ ExploreFail
    \/ PreloadConceptFail
    \/ ExpandFail
    \/ DeepDiveFail

SpecErrors == InitHighlighted /\ [][NextErrors]_vars

(***************************************************************************)
(* C31: error becomes non-null only in the step of a failed topic load.    *)
(* A failed deep-dive prefetch, concept prefetch or on-demand expansion    *)
(* leaves the whole state as it was; a failed concept exploration leaves   *)
(* error as it was and the fallback text in the overlay; a move whose      *)
(* checkpoint write throws leaves error as it was; and initialisation,     *)
(* whatever the stored entry, leaves error null.                           *)
(***************************************************************************)
C31_ErrorOnlyFromTopicLoad ==
    /\ [][(state'.error # state.error /\ state'.error # Null) => FetchTopicsFail]_vars
    /\ [][(DeepDiveFail \/ PreloadConceptFail \/ ExpandFail) => UNCHANGED state]_vars
    /\ [][ExploreFail =>
              /\ state'.error = state.error
              /\ state'.conceptContent # Null
              /\ state'.conceptContent[1].text = "Unable to research"
              /\ ~state'.isExploringConcept
         ]_vars
    /\ [][\A direction \in {"down", "right"} :
              navigate(direction, FALSE) => state'.error = state.error]_vars
    /\ [][Mount => state'.error = Null]_vars

\* An expansion failed (expanded depth, nothing stored, nothing pending), an
\* exploration failed (the fallback text is shown), and error is null.
C31_Witness ==
    /\ state.error = Null
    /\ state.currentIndex < Len(state.topics)
    /\ state.depth = "expanded"
    /\ ~Expanded(state, CurrentId(state))
    /\ expandInFlight = <<>>
    /\ state.conceptContent = Some(UnableToResearch(<<"Q">>))
    /\ exploreInFlight = <<>>

\* The page over a restored feed: the keys and the long press, with the
\* explanations and expansions arriving.
NextPage ==
    \/ Mount
    \/ LoadMoreFail
    \/ Navigate(Horizontal, {TRUE})
    \/ HandleEnter(Selections)
    \/ LongPress(Selections)
    \/ Escape
    \/ ExploreOk(Explanations)
    \/ ExpandOk(DeepDives)

SpecPage == InitRestored /\ [][NextPage]_vars

\* the concept overlay is shown
ConceptOpen == Truthy(state.currentConcept)

(***************************************************************************)
(* C32 as stated: with no selection popup open, Escape dismisses one       *)
(* thing by the precedence concept overlay > question overlay > depth      *)
(* reset: with the concept overlay open it closes that overlay and leaves  *)
(* the question overlay as it is.                                          *)
(***************************************************************************)
C32_ConceptOverlayFirst ==
    [][(Escape /\ ~selectionPopup.isOpen) =>
          IF ConceptOpen
          THEN /\ state' = clearConceptExploration(state)
               /\ questionState' = questionState
          ELSE IF questionState
          THEN /\ ~questionState'
               /\ state' = state
          ELSE /\ state' = resetDepth(state)
               /\ questionState' = questionState
      ]_vars

(***************************************************************************)
(* C32 amended: Escape dismisses exactly one thing by the precedence       *)
(* selection popup > question overlay > concept overlay > depth reset:     *)
(* with both overlays open and no popup it closes the question overlay and *)
(* leaves the concept overlay open; depth is reset to summary only when    *)
(* the popup and both overlays are closed.                                 *)
(***************************************************************************)
C32_EscapeDismissesOne ==
    [][Escape =>
          /\ selectionPopup.isOpen =>
                /\ ~selectionPopup'.isOpen
                /\ questionState' = questionState /\ state' = state
          /\ (~selectionPopup.isOpen /\ questionState) =>
                /\ ~questionState'
                /\ selectionPopup' = selectionPopup /\ state' = state
          /\ (~selectionPopup.isOpen /\ ~questionState /\ ConceptOpen) =>
                /\ ~Truthy(state'.currentConcept)
                /\ state'.conceptContent = Null
                /\ state'.depth = state.depth
                /\ selectionPopup' = selectionPopup /\ questionState' = questionState
          /\ (~selectionPopup.isOpen /\ ~questionState /\ ~ConceptOpen) =>
                /\ state'.depth = "summary"
                /\ selectionPopup' = selectionPopup /\ questionState' = questionState
          /\ state'.depth # state.depth =>
                ~selectionPopup.isOpen /\ ~questionState /\ ~ConceptOpen
      ]_vars

\* Escape was pressed with no popup and both overlays open at expanded depth
\* (the concept overlay is open and the depth is not summary, so it was the
\* question overlay that closed).
C32_Witness ==
    /\ lastOp = "escape"
    /\ ConceptOpen
    /\ state.conceptContent # Null
    /\ ~questionState
    /\ ~selectionPopup.isOpen
    /\ state.depth = "expanded"
    /\ exploreInFlight = <<>>

\* The preference panel next to a restored feed the user moves in.
NextPreferences ==
    \/ Mount
    \/ LoadMoreFail
    \/ Navigate(Vertical, {TRUE})
    \/ ToggleTag(Tags)
    \/ SavePrompt(Prompts)
    \/ RequestLocation(Locations)
    \/ ClearLocation
    \/ ResetAllPreferences(BOOLEAN)

SpecPreferences == InitPreferences /\ [][NextPreferences]_vars

\* A HighlightedText rendering a content with its highlights.
NextText == RenderHighlightedText

SpecText == InitHighlightedText /\ [][NextText]_vars

Occurs(content, text) == \E p \in 0..Len(content) : OccursAt(content, text, p)

\* the first position of text in content
FirstPosition(content, text) ==
    CHOOSE p \in 0..Len(content) :
        /\ OccursAt(content, text, p)
        /\ \A q \in 0..(p - 1) : ~OccursAt(content, text, q)

\* the texts of the segments, concatenated
RECURSIVE Concat(_)
Concat(segs) ==
    IF segs = <<>> THEN <<>> ELSE segs[1].text \o Concat(Tail(segs))

\* where the k-th segment starts in what is rendered
Offset(segs, k) == Len(Concat(SubSeq(segs, 1, k - 1)))

(***************************************************************************)
(* C34: a highlight with the (0, 0) offsets and a non-empty text that      *)
(* occurs in content is rendered as a highlighted segment holding          *)
(* content[p, p + length(text)), p the first position of text in content;  *)
(* when it is the only highlight the segment starts at p in what is        *)
(* rendered, and the segments together are the content.  If text does not  *)
(* occur, no segment carries the highlight, and when no highlight of the   *)
(* list occurs the content is rendered in full as one plain segment.       *)
(***************************************************************************)
C34_SentinelResolvedToFirstOccurrence ==
    LET content == highlightedText.content
        highlights == highlightedText.highlights
    IN highlightedText.segments # Null =>
        LET segs == highlightedText.segments[1]
        IN \A i \in DOMAIN highlights :
            IsSentinel(highlights[i]) =>
                IF Occurs(content, highlights[i].text)
                THEN LET pos == FirstPosition(content, highlights[i].text)
                         span == SubSeq(content, pos + 1, pos + Len(highlights[i].text))
                     IN \E k \in DOMAIN segs :
                            /\ segs[k] = Marked(span, highlights[i])
                            /\ Len(highlights) = 1 =>
                                   /\ Offset(segs, k) = pos
                                   /\ Concat(segs) = content
                ELSE /\ \A k \in DOMAIN segs : segs[k].highlight # Some(highlights[i])
                     /\ (\A j \in DOMAIN highlights :
                             /\ IsSentinel(highlights[j])
                             /\ ~Occurs(content, highlights[j].text)) =>
                            segs = IF content = <<>> THEN <<>> ELSE <<Plain(content)>>

\* The sentence of the tests, rendered: the highlighted segment is [28, 52).
C34_Witness ==
    /\ highlightedText.content = Sentence
    /\ highlightedText.highlights = <<Sentinel(1, QuantumErrorCorrection)>>
    /\ highlightedText.segments # Null
    /\ Len(highlightedText.segments[1]) = 3
    /\ highlightedText.segments[1][2].isHighlight
    /\ Offset(highlightedText.segments[1], 2) = 28
    /\ Offset(highlightedText.segments[1], 3) = 52

\* the span a highlight resolves to: its offsets, or those of the first
\* occurrence of its text; none if the text does not occur
ResolvedSpan(content, h) ==
    IF ~IsSentinel(h) THEN Some(<<h.startIndex, h.endIndex>>)
    ELSE IF Occurs(content, h.text)
    THEN Some(<<FirstPosition(content, h.text),
                FirstPosition(content, h.text) + Len(h.text)>>)
    ELSE Null

NonOverlapping(content, highlights) ==
    \A i, j \in DOMAIN highlights :
        (i # j /\ ResolvedSpan(content, highlights[i]) # Null
               /\ ResolvedSpan(content, highlights[j]) # Null) =>
            LET a == ResolvedSpan(content, highlights[i])[1]
                b == ResolvedSpan(content, highlights[j])[1]
            IN a[2] <= b[1] \/ b[2] <= a[1]

(***************************************************************************)
(* C39: for a content and highlights whose resolved spans do not overlap,  *)
(* in whatever order they are listed and whether their offsets are given   *)
(* or (0, 0), the highlighted segments appear in ascending order of their  *)
(* spans and the texts of the segments concatenated are the content.       *)
(***************************************************************************)
C39_SegmentsCoverContent ==
    LET content == highlightedText.content
        highlights == highlightedText.highlights
    IN (highlightedText.segments # Null /\ NonOverlapping(content, highlights)) =>
        LET segs == highlightedText.segments[1]
        IN /\ Concat(segs) = content
           /\ \A k, l \in DOMAIN segs :
                 (k < l /\ segs[k].isHighlight /\ segs[l].isHighlight) =>
                     ResolvedSpan(content, segs[k].highlight[1])[1][1] <
                         ResolvedSpan(content, segs[l].highlight[1])[1][1]

(***************************************************************************)
(* C35: a confirmed "Reset all preferences" leaves no entry for the        *)
(* preferences, the likes, the interest tags and the custom prompt, and    *)
(* leaves the stored location, the feed checkpoint (topics and position)   *)
(* and the feed state as they were.                                        *)
(***************************************************************************)
C35_ResetKeepsLocationAndFeed ==
    [][resetAllPreferences(TRUE) =>
          /\ \A k \in {"vibescroll_preferences", "vibescroll_likes",
                        "vibescroll_interest_tags", "vibescroll_custom_prompt"} :
                 preferenceStorage'[k] = Null
          /\ preferenceStorage'["vibescroll_location"] =
                 preferenceStorage["vibescroll_location"]
          /\ UNCHANGED <<localStorage, state>>
      ]_vars

\* After a reset: the four entries are gone, the location is stored, and
\* the checkpoint holds the feed at the position the user moved to.
C35_Witness ==
    /\ lastOp = "reset"
    /\ \A k \in ResetKeys : preferenceStorage[k] = Null
    /\ preferenceStorage["vibescroll_location"] = Some("NYC")
    /\ state.currentIndex > 0
    /\ localStorage = saveToStorage(state.topics, state.currentIndex, now)

(***************************************************************************)
(* C33: in every state with a loaded feed, mode is the mode (live or demo) *)
(* that the most recent successful fetchTopics response reported, also     *)
(* after the feed was restored from persistence.                           *)
(***************************************************************************)
C33_ModeAsReported ==
    (Len(state.topics) > 0 /\ ~state.isLoading /\ reportedMode \in {"live", "demo"}) =>
        state.mode = reportedMode

(***************************************************************************)
(* C36: in every reachable state the overlay is coherent: with no concept  *)
(* shown (currentConcept null) no content is shown (conceptContent null),  *)
(* and when both are set the content is an explanation, or the fallback    *)
(* text naming the concept that is shown.                                  *)
(***************************************************************************)
C36_OverlayCoherent ==
    /\ state.currentConcept = Null => state.conceptContent = Null
    /\ (state.currentConcept # Null /\ state.conceptContent # Null) =>
          \/ state.conceptContent[1].text = "explanation"
          \/ state.conceptContent[1] = UnableToResearch(state.currentConcept[1])

\* The controller left to itself: the user gives no command, and every
\* request is answered (the mount effect runs, and each pending request
\* eventually gets its response, ok or not).
NextQuiet ==
    \/ Mount
    \/ FetchTopicsOk(Service, {TRUE})
    \/ FetchTopicsFail
    \/ LoadMoreOk(Service, {TRUE})
    \/ LoadMoreFail
    \/ DeepDiveOk
    \/ DeepDiveFail

SpecQuiet ==
    /\ Init
    /\ [][NextQuiet]_vars
    /\ WF_vars(Mount)
    /\ WF_vars(FetchTopicsOk(Service, {TRUE}) \/ FetchTopicsFail)
    /\ WF_vars(LoadMoreOk(Service, {TRUE}) \/ LoadMoreFail)
    /\ WF_vars(DeepDiveOk \/ DeepDiveFail)

\* no request is in flight
Quiet ==
    /\ fetchInFlight = 0
    /\ moreInFlight = <<>>
    /\ exploreInFlight = <<>>
    /\ preloadInFlight = {}
    /\ deepDiveInFlight = {}
    /\ expandInFlight = <<>>

(***************************************************************************)
(* C37: with no command from the user and every request answered, the     *)
(* controller eventually has no request in flight and issues none from     *)
(* then on.                                                                *)
(***************************************************************************)
C37_EventuallyQuiet == <>[](initializedRef /\ Quiet)

(***************************************************************************)
(* C38: for every topic t, at most one expansion request of expandTopic    *)
(* for t is in flight in any reachable state.                              *)
(***************************************************************************)
C38_OneExpansionInFlight ==
    \A id \in KnownIds : Count(expandInFlight, id) <= 1

====
